---- MODULE Spec2Model ----
(***************************************************************************)
(* Model of the rice-yield simulation engine (src/src/lib/simulationEngine *)
(* .ts) and of the weather model it calls (lib/simulation.ts).             *)
(*                                                                         *)
(* eng is the SimulationEngine object together with the host's queue of   *)
(* animation-frame callbacks (rafLive, rafLeaked) and observation fields    *)
(* that record which parameter values each cycle read (usedCyc, usedTP,     *)
(* recUsedCyc, recUsedTP).  last describes the latest step.                   *)
(*                                                                         *)
(* Units.  Yields are integers in tenths of t/ha (2.0 t/ha = 20).  Times   *)
(* are integer milliseconds.  speedMultiplier is held in halves (1x = 2)   *)
(* so that the floor of 0.5 is the integer 1.  Weather weights are in      *)
(* 1/10000, season-blend weights in 1/100, uniform random draws in 1/1000. *)
(* The Welford means are held in units of 1/WL of a tenth and the sums of  *)
(* squared deviations in units of 1/WL^2, WL being a common multiple of    *)
(* every sample count a run can reach, so that every division the code     *)
(* makes is exact; floating-point rounding is not modelled.                *)
(***************************************************************************)
EXTENDS Integers, Sequences, FiniteSets, TLC

VARIABLES eng, last

vars == <<eng, last>>

----------------------------------------------------------------------------
(* Bounds of the model *)

\* largest cyclesTarget a caller passes
MaxCycles == 2

\* largest daysPerCycle a caller passes
MaxDays == 2

\* animation-frame callbacks that may be outstanding beyond the one in rafId
MaxLeaked == 1

\* resume() calls explored per run (each one adds a 16 ms first frame)
MaxResumes == 1

\* yields fed to the running statistics in the accumulator specification
MaxYields == 4

\* cycles of the long run: past MAX_SERIES
MaxRun == 402

\* days of the one cycle whose tally is followed day by day
MaxTallyDays == 3

----------------------------------------------------------------------------
(* Program constants *)

BINS_STEP == 5

BINS_MAX == 55

MAX_SERIES == 400

RECENT_KEEP == 59

EMIT_INTERVAL_MS == 50

FIRST_FRAME_MS == 16

LOW_YIELD == 20

WeatherTypes == <<"Dry", "Normal", "Wet", "Typhoon">>

WeatherSet == {"Dry", "Normal", "Wet", "Typhoon"}

Severities == {"Moderate", "Severe"}

NULL == "null"

\* Infinity, as the initial minYield / -maxYield
INFINITY == 1000000

\* currentYield: number | null
NoYield == -1

\* summaryCache: a summary is the one-element sequence holding it, null is <<>>
\* the functions handed to subscribe()
Listeners == {"a", "b"}

NoSummary == <<>>

BASE_YIELDS == [Dry |-> 20, Normal |-> 30, Wet |-> 33, Typhoon |-> 12]

TYPHOON_YIELDS == [Moderate |-> 14, Severe |-> 8]

IRRIGATION_ADJ == [Irrigated |-> 3, Rainfed |-> 0]

ENSO_ADJ == [ElNino |-> -4, Neutral |-> 0, LaNina |-> 3]

DEFAULT_PROFILE == [wetStart |-> 6, wetEnd |-> 10, typhoonMultiplier |-> 120,
                    severity |-> [Moderate |-> 600, Severe |-> 400]]

NonLiveFields == {"plantingMonth", "irrigationType", "ensoState", "cyclesTarget", "daysPerCycle"}

CycleFields == {"plantingMonth", "irrigationType", "ensoState", "daysPerCycle"}

ParamFields == NonLiveFields \cup {"typhoonProbability"}

----------------------------------------------------------------------------
(* Small helpers *)

Min(a, b) == IF a <= b THEN a ELSE b

Max(a, b) == IF a >= b THEN a ELSE b

EmptyPartial == [f \in {} |-> 0]

\* { ...p, ...q }
Spread(p, q) == [f \in (DOMAIN p) \cup (DOMAIN q) |-> IF f \in DOMAIN q THEN q[f] ELSE p[f]]

\* p without the keys in ks
Omit(p, ks) == [f \in (DOMAIN p) \ ks |-> p[f]]

Restrict(p, ks) == [f \in (DOMAIN p) \cap ks |-> p[f]]

\* arr.slice(-n)
\* a slice that keeps the first n elements
SliceLast_keepsFirst(s, n) == IF Len(s) <= n THEN s ELSE SubSeq(s, 1, n)

SliceLast(s, n) == IF Len(s) <= n THEN s ELSE SubSeq(s, Len(s) - n + 1, Len(s))

RECURSIVE SumSeq(_)
SumSeq(s) == IF s = <<>> THEN 0 ELSE Head(s) + SumSeq(Tail(s))

RECURSIVE Gcd(_, _)
Gcd(a, b) == IF b = 0 THEN a ELSE Gcd(b, a % b)

RECURSIVE LcmUpTo(_)
LcmUpTo(n) == IF n <= 1 THEN 1 ELSE LET l == LcmUpTo(n - 1) IN (l * n) \div Gcd(l, n)

\* scale of the Welford means
WL == LcmUpTo(Max(MaxCycles, MaxYields))

\* F applied to the value of v: v is computed once (a const binding)
With(v, F(_)) == CHOOSE r \in {F(x) : x \in {v}} : TRUE

\* s in ascending order ([...s].sort((a, b) => a - b)): slot i holds the least
\* value that at least i elements of s do not exceed
SortAsc(s) ==
  LET ranked(upTo) ==
        [i \in 1..Len(s) |->
           CHOOSE v \in DOMAIN upTo :
             /\ upTo[v] >= i
             /\ \A u \in DOMAIN upTo : upTo[u] >= i => v <= u]
  IN With([v \in {s[j] : j \in 1..Len(s)} |->
              Cardinality({j \in 1..Len(s) : s[j] <= v})],
          ranked)

----------------------------------------------------------------------------
(* lib/simulation.ts: season and weather model *)

wrapMonth(month) ==
  IF month < 1 THEN month + 12
  ELSE IF month > 12 THEN month - 12
  ELSE month

\* getSeasonBlend whose label takes a wet weight of 0.5 for wet
getSeasonBlend_halfIsWet(month) ==
  LET inWet == month >= DEFAULT_PROFILE.wetStart /\ month <= DEFAULT_PROFILE.wetEnd
      blend(wetWeight) ==
        [dryWeight |-> 100 - wetWeight,
         wetWeight |-> wetWeight,
         label |-> IF wetWeight >= 50 THEN "Wet Season" ELSE "Dry Season"]
  IN IF inWet THEN [dryWeight |-> 0, wetWeight |-> 100, label |-> "Wet Season"]
     ELSE blend(IF month \in {wrapMonth(DEFAULT_PROFILE.wetEnd + 1),
                              wrapMonth(DEFAULT_PROFILE.wetStart - 1)} THEN 50
                ELSE IF month \in {wrapMonth(DEFAULT_PROFILE.wetEnd + 2),
                                   wrapMonth(DEFAULT_PROFILE.wetStart - 2)} THEN 25
                ELSE 0)

getSeasonBlend(month) ==
  LET profile == DEFAULT_PROFILE
      inWet == month >= profile.wetStart /\ month <= profile.wetEnd
      blend(wetWeight) ==
        [dryWeight |-> 100 - wetWeight,
         wetWeight |-> wetWeight,
         label |-> IF wetWeight >= 60 THEN "Wet Season"
                   ELSE IF wetWeight <= 40 THEN "Dry Season"
                   ELSE "Transition Season"]
  IN IF inWet THEN [dryWeight |-> 0, wetWeight |-> 100, label |-> "Wet Season"]
     ELSE blend(IF month = wrapMonth(profile.wetEnd + 2) THEN 25
                ELSE IF month = wrapMonth(profile.wetEnd + 1) THEN 50
                ELSE IF month = wrapMonth(profile.wetStart - 2) THEN 25
                ELSE IF month = wrapMonth(profile.wetStart - 1) THEN 50
                ELSE 0)

getSeason(month) == getSeasonBlend(month).label

\* typhoonProb is the percentage (the code passes percentage / 100); the
\* weights are returned unnormalised together with their total
getWeatherWeights(month, typhoonProb) ==
  LET tProb == Max(0, Min(6000, typhoonProb * DEFAULT_PROFILE.typhoonMultiplier))
      mix(blend) ==
        LET dryWeights == [Dry |-> 5000, Normal |-> 4000, Wet |-> 1000, Typhoon |-> 500]
            wetWeights == [Dry |-> 1000, Normal |-> 4000, Wet |-> 3500, Typhoon |-> tProb]
        IN [w \in WeatherSet |->
              dryWeights[w] * blend.dryWeight + wetWeights[w] * blend.wetWeight]
      totalled(weights) ==
        [weights |-> weights,
         total |-> weights.Dry + weights.Normal + weights.Wet + weights.Typhoon]
  IN With(With(getSeasonBlend(month), mix), totalled)

\* r is the uniform draw in 1/1000; r < acc/total is decided as r*total < acc*1000
getWeather(month, typhoonProb, r) ==
  LET pick(w, total) ==
        IF r * total < w.Dry * 1000 THEN "Dry"
        ELSE IF r * total < (w.Dry + w.Normal) * 1000 THEN "Normal"
        ELSE IF r * total < (w.Dry + w.Normal + w.Wet) * 1000 THEN "Wet"
        ELSE "Typhoon"
      sample(ww) == pick(ww.weights, ww.total)
  IN With(getWeatherWeights(month, typhoonProb), sample)

getTyphoonSeverity(r) ==
  IF r < DEFAULT_PROFILE.severity.Severe THEN "Severe" ELSE "Moderate"

----------------------------------------------------------------------------
(* simulationEngine.ts: histogram and yield model *)

initBins == [i \in 1..(BINS_MAX \div BINS_STEP) |-> 0]

\* addToBin that has no bin for a yield below 2.0 t
addToBin_fromTwo(bins, y) ==
  LET idx == Min(y \div BINS_STEP, Len(bins) - 1)
  IN IF idx >= 4 THEN [bins EXCEPT ![idx + 1] = @ + 1] ELSE bins

addToBin(bins, y) ==
  LET idx == Min(y \div BINS_STEP, Len(bins) - 1)
  IN IF idx >= 0 THEN [bins EXCEPT ![idx + 1] = @ + 1] ELSE bins

\* computeYield without the floor at 0
computeYield_noFloor(weather, p, typhoonSeverity, noise) ==
  LET base == IF weather = "Typhoon" /\ typhoonSeverity # NULL
              THEN TYPHOON_YIELDS[typhoonSeverity]
              ELSE BASE_YIELDS[weather]
      deterministic == base + IRRIGATION_ADJ[p.irrigationType] + ENSO_ADJ[p.ensoState]
  IN [final |-> deterministic + noise, deterministic |-> deterministic,
      noise |-> noise, base |-> base]

\* noise is the value gaussianNoise() returned, in tenths
computeYield(weather, p, typhoonSeverity, noise) ==
  LET base == IF weather = "Typhoon" /\ typhoonSeverity # NULL
              THEN TYPHOON_YIELDS[typhoonSeverity]
              ELSE BASE_YIELDS[weather]
      adj == IRRIGATION_ADJ[p.irrigationType] + ENSO_ADJ[p.ensoState]
      deterministic == base + adj
      final == Max(0, deterministic + noise)
  IN [final |-> final, deterministic |-> deterministic, noise |-> noise, base |-> base]

----------------------------------------------------------------------------
(* simulationEngine.ts: the engine object *)

ZeroWeather == [Dry |-> 0, Normal |-> 0, Wet |-> 0, Typhoon |-> 0]

ZeroSeverity == [Moderate |-> 0, Severe |-> 0]

\* field initialisers of class SimulationEngine, with params p
NewEngine(p) ==
  [ rafId |-> NULL, lastTime |-> NULL, accumulatedMs |-> 0, cycleElapsedMs |-> 0,
    status |-> "idle", mode |-> "day", speedMultiplier |-> 2,
    params |-> p, pendingParams |-> EmptyPartial,
    currentCycleIndex |-> 0, currentDay |-> 0,
    currentWeather |-> NULL, currentYield |-> NoYield,
    currentCycleWeatherTimeline |-> <<>>, cycleWeatherSequence |-> <<>>,
    welfordCount |-> 0, welfordMean |-> 0, welfordM2 |-> 0,
    deterministicMean |-> 0, deterministicM2 |-> 0,
    noiseMean |-> 0, noiseM2 |-> 0,
    lowYieldCount |-> 0, minYield |-> INFINITY, maxYield |-> -INFINITY,
    yieldHistoryOverTime |-> <<>>, recentYields |-> <<>>, allYields |-> <<>>,
    yieldSeries |-> <<>>, yieldBandSeries |-> <<>>, cycleRecords |-> <<>>,
    weatherCounts |-> ZeroWeather, dailyWeatherCounts |-> ZeroWeather,
    dailyTyphoonSeverityCounts |-> ZeroSeverity,
    histogramBins |-> initBins,
    summaryCache |-> NoSummary,
    cycleWeatherAccum |-> ZeroWeather, cycleTyphoonSeverityCounts |-> ZeroSeverity,
    cycleTyphoonSeveritySequence |-> <<>>,
    listeners |-> {},
    lastEmitAge |-> EMIT_INTERVAL_MS,
    \* host: is the callback named by rafId still queued; queued callbacks
    \* whose id the engine has overwritten
    rafLive |-> FALSE, rafLeaked |-> 0,
    \* observation
    usedCyc |-> {}, usedTP |-> {}, recUsedCyc |-> <<>>, recUsedTP |-> <<>>,
    resumes |-> 0,
    \* observation: the listener calls the operation under way has made, in
    \* order, and per listener the unsubscribe functions handed out and not
    \* yet called
    emitted |-> <<>>, handles |-> [l \in Listeners |-> 0],
    \* observation, two-mode specification only: the cycle-mode run that is
    \* fed the same draws, and the draws its prepared cycle consumed
    twin |-> <<>> ]

\* the cycle-scoped non-live fields of a parameter set
CycleView(p) == Restrict(p, CycleFields)

cancelAnimationFrame(e) ==
  IF e.rafId # NULL THEN [e EXCEPT !.rafLive = FALSE] ELSE e

requestAnimationFrame(e) ==
  [e EXCEPT !.rafLeaked = @ + (IF e.rafLive THEN 1 ELSE 0),
            !.rafLive = TRUE,
            !.rafId = "id"]

\* loop(): registers the frame callback (its body is rafCallback below)
loop(e) == requestAnimationFrame(e)

\* snapshot() that divides without testing the divisor
snapshot_divides(e) ==
  [ status |-> e.status, mode |-> e.mode, speedMultiplier |-> e.speedMultiplier,
    params |-> e.params, pendingParams |-> e.pendingParams,
    currentCycleIndex |-> e.currentCycleIndex, currentDay |-> e.currentDay,
    dayProgress |-> <<e.currentDay, e.params.daysPerCycle>>,
    runProgress |-> <<e.currentCycleIndex, e.params.cyclesTarget>>,
    currentWeather |-> e.currentWeather, currentYield |-> e.currentYield,
    currentCycleWeatherTimeline |-> e.currentCycleWeatherTimeline,
    runningMean |-> e.welfordMean,
    runningVar |-> IF e.welfordCount < 2 THEN 0 ELSE e.welfordM2 \div e.welfordCount,
    lowYieldProb |-> IF e.welfordCount > 0
                     THEN <<e.lowYieldCount, e.welfordCount>> ELSE <<0, 1>>,
    yieldHistoryOverTime |-> e.yieldHistoryOverTime, recentYields |-> e.recentYields,
    yieldSeries |-> e.yieldSeries, yieldBandSeries |-> e.yieldBandSeries,
    cycleRecords |-> e.cycleRecords,
    weatherCounts |-> e.weatherCounts, dailyWeatherCounts |-> e.dailyWeatherCounts,
    dailyTyphoonSeverityCounts |-> e.dailyTyphoonSeverityCounts,
    histogramBins |-> e.histogramBins,
    summary |-> e.summaryCache ]

\* snapshot(): the published view; every field is a copy. Fractions are
\* <<numerator, denominator>>, runningVar is runningSd squared
snapshot(e) ==
  [ status |-> e.status, mode |-> e.mode, speedMultiplier |-> e.speedMultiplier,
    params |-> e.params, pendingParams |-> e.pendingParams,
    currentCycleIndex |-> e.currentCycleIndex, currentDay |-> e.currentDay,
    dayProgress |-> IF e.params.daysPerCycle > 0
                    THEN <<e.currentDay, e.params.daysPerCycle>> ELSE <<0, 1>>,
    runProgress |-> IF e.params.cyclesTarget > 0
                    THEN <<e.currentCycleIndex, e.params.cyclesTarget>> ELSE <<0, 1>>,
    currentWeather |-> e.currentWeather, currentYield |-> e.currentYield,
    currentCycleWeatherTimeline |-> e.currentCycleWeatherTimeline,
    runningMean |-> e.welfordMean,
    runningVar |-> IF e.welfordCount < 2 THEN 0 ELSE e.welfordM2 \div e.welfordCount,
    lowYieldProb |-> IF e.welfordCount > 0
                     THEN <<e.lowYieldCount, e.welfordCount>> ELSE <<0, 1>>,
    yieldHistoryOverTime |-> e.yieldHistoryOverTime, recentYields |-> e.recentYields,
    yieldSeries |-> e.yieldSeries, yieldBandSeries |-> e.yieldBandSeries,
    cycleRecords |-> e.cycleRecords,
    weatherCounts |-> e.weatherCounts, dailyWeatherCounts |-> e.dailyWeatherCounts,
    dailyTyphoonSeverityCounts |-> e.dailyTyphoonSeverityCounts,
    histogramBins |-> e.histogramBins,
    summary |-> e.summaryCache ]

\* an emit that honours the throttle interval even when forced
emit_throttled(e, force) ==
  IF e.lastEmitAge < EMIT_INTERVAL_MS THEN e
  ELSE [e EXCEPT !.emitted =
          Append(@, [ via |-> IF force THEN "forced" ELSE "throttled",
                      age |-> IF force THEN NULL ELSE e.lastEmitAge,
                      calls |-> [l \in e.listeners |-> snapshot(e)] ])]

\* emit(force) takes one snapshot and calls every listener with it; force is
\* not read. It writes no engine field: the entry appended to emitted records
\* the calls made, and for a throttled emission the time since the previous one
emit(e, force) ==
  [e EXCEPT !.emitted =
     Append(@, [ via |-> IF force THEN "forced" ELSE "throttled",
                 age |-> IF force THEN NULL ELSE e.lastEmitAge,
                 calls |-> [l \in e.listeners |-> snapshot(e)] ])]

\* a running update that squares the first deviation instead of multiplying
\* it by the deviation from the new mean
welfordUpdate_squaresDelta(x, oldMean, count) ==
  LET stepped(delta) == [mean |-> oldMean + (delta \div count), m2 |-> delta * delta]
  IN stepped(x * WL - oldMean)

\* one Welford update with count already incremented: the new mean and the
\* increment of M2
welfordUpdate(x, oldMean, count) ==
  LET updated(delta, mean) == [mean |-> mean, m2 |-> delta * (x * WL - mean)]
      stepped(delta) == updated(delta, oldMean + (delta \div count))
  IN stepped(x * WL - oldMean)

welfordVar(e) == IF e.welfordCount < 2 THEN 0 ELSE e.welfordM2 \div e.welfordCount

\* computeSummary that reports nothing until two cycles have completed
computeSummary_needsTwo(e) ==
  IF Len(e.allYields) < 2 THEN NoSummary
  ELSE LET sorted == SortAsc(e.allYields)
           n == Len(sorted)
       IN << [ mean |-> e.welfordMean,
            var |-> welfordVar(e),
            min |-> IF e.minYield = INFINITY THEN 0 ELSE e.minYield,
            max |-> IF e.maxYield = -INFINITY THEN 0 ELSE e.maxYield,
            percentile5 |-> sorted[((n * 5) \div 100) + 1],
            percentile95 |-> sorted[((n * 95) \div 100) + 1] ] >>

computeSummary(e) ==
  IF Len(e.allYields) = 0 THEN NoSummary
  ELSE LET sorted == SortAsc(e.allYields)
           n == Len(sorted)
       IN << [ mean |-> e.welfordMean,
            var |-> welfordVar(e),
            min |-> IF e.minYield = INFINITY THEN 0 ELSE e.minYield,
            max |-> IF e.maxYield = -INFINITY THEN 0 ELSE e.maxYield,
            percentile5 |-> sorted[((n * 5) \div 100) + 1],
            percentile95 |-> sorted[((n * 95) \div 100) + 1] ] >>

\* resetInternals that leaves weatherCounts and lowYieldCount as they were
resetInternals_keepsTallies(e) ==
  [e EXCEPT
    !.currentCycleIndex = 0, !.currentDay = 0,
    !.currentWeather = NULL, !.currentYield = NoYield,
    !.currentCycleWeatherTimeline = <<>>, !.cycleWeatherSequence = <<>>,
    !.welfordCount = 0, !.welfordMean = 0, !.welfordM2 = 0,
    !.deterministicMean = 0, !.deterministicM2 = 0,
    !.noiseMean = 0, !.noiseM2 = 0,
    !.minYield = INFINITY, !.maxYield = -INFINITY,
    !.yieldHistoryOverTime = <<>>, !.recentYields = <<>>, !.allYields = <<>>,
    !.yieldSeries = <<>>, !.yieldBandSeries = <<>>, !.cycleRecords = <<>>,
    !.summaryCache = NoSummary,
    !.dailyWeatherCounts = ZeroWeather,
    !.dailyTyphoonSeverityCounts = ZeroSeverity,
    !.histogramBins = initBins,
    !.cycleWeatherAccum = ZeroWeather, !.cycleTyphoonSeverityCounts = ZeroSeverity,
    !.cycleTyphoonSeveritySequence = <<>>,
    !.accumulatedMs = 0, !.cycleElapsedMs = 0,
    !.params = Spread(e.params, e.pendingParams),
    !.pendingParams = EmptyPartial,
    !.usedCyc = {}, !.usedTP = {}, !.recUsedCyc = <<>>, !.recUsedTP = <<>>,
    !.resumes = 0 ]

resetInternals(e) ==
  [e EXCEPT
    !.currentCycleIndex = 0, !.currentDay = 0,
    !.currentWeather = NULL, !.currentYield = NoYield,
    !.currentCycleWeatherTimeline = <<>>, !.cycleWeatherSequence = <<>>,
    !.welfordCount = 0, !.welfordMean = 0, !.welfordM2 = 0,
    !.deterministicMean = 0, !.deterministicM2 = 0,
    !.noiseMean = 0, !.noiseM2 = 0,
    !.lowYieldCount = 0, !.minYield = INFINITY, !.maxYield = -INFINITY,
    !.yieldHistoryOverTime = <<>>, !.recentYields = <<>>, !.allYields = <<>>,
    !.yieldSeries = <<>>, !.yieldBandSeries = <<>>, !.cycleRecords = <<>>,
    !.summaryCache = NoSummary,
    !.weatherCounts = ZeroWeather, !.dailyWeatherCounts = ZeroWeather,
    !.dailyTyphoonSeverityCounts = ZeroSeverity,
    !.histogramBins = initBins,
    !.cycleWeatherAccum = ZeroWeather, !.cycleTyphoonSeverityCounts = ZeroSeverity,
    !.cycleTyphoonSeveritySequence = <<>>,
    !.accumulatedMs = 0, !.cycleElapsedMs = 0,
    !.params = Spread(e.params, e.pendingParams),
    !.pendingParams = EmptyPartial,
    !.usedCyc = {}, !.usedTP = {}, !.recUsedCyc = <<>>, !.recUsedTP = <<>>,
    !.resumes = 0 ]

\* finish() that forgets the status assignment
finish_keepsRunning(e) ==
  LET e1 == cancelAnimationFrame(e)
      e2 == [e1 EXCEPT !.rafId = NULL]
      e3 == [e2 EXCEPT !.summaryCache = computeSummary(e2)]
  IN emit(e3, TRUE)

\* finish() that clears the record list
finish_dropsRecords(e) ==
  LET e1 == cancelAnimationFrame([e EXCEPT !.status = "finished", !.cycleRecords = <<>>])
      e2 == [e1 EXCEPT !.rafId = NULL]
      e3 == [e2 EXCEPT !.summaryCache = computeSummary(e2)]
  IN emit(e3, TRUE)

finish(e) ==
  LET e1 == cancelAnimationFrame([e EXCEPT !.status = "finished"])
      e2 == [e1 EXCEPT !.rafId = NULL]
      e3 == [e2 EXCEPT !.summaryCache = computeSummary(e2)]
  IN emit(e3, TRUE)

\* the reduce with > in place of >=: the later type wins a tie
RECURSIVE DominantFrom_lastWins(_, _, _)
DominantFrom_lastWins(counts, a, i) ==
  IF i > Len(WeatherTypes) THEN a
  ELSE LET b == WeatherTypes[i]
       IN DominantFrom_lastWins(counts, IF counts[a] > counts[b] THEN a ELSE b, i + 1)

RECURSIVE DominantFrom(_, _, _)
DominantFrom(counts, a, i) ==
  IF i > Len(WeatherTypes) THEN a
  ELSE LET b == WeatherTypes[i]
       IN DominantFrom(counts, IF counts[a] >= counts[b] THEN a ELSE b, i + 1)

getDominantWeather(e) == DominantFrom(e.cycleWeatherAccum, WeatherTypes[1], 2)

cycleDurationMs(e) == Min(500, Max(200, 600 \div e.speedMultiplier))

\* the body of prepareCycle's for loop; draws[d] = <<r for getWeather, r for getTyphoonSeverity>>
RECURSIVE prepareDays(_, _, _)
prepareDays(e, draws, d) ==
  IF ~(d < e.params.daysPerCycle) THEN e
  ELSE LET pushed(w) ==
             [e EXCEPT !.cycleWeatherSequence = Append(@, w),
                       !.cycleWeatherAccum[w] = @ + 1,
                       !.usedCyc = @ \cup {CycleView(e.params)},
                       !.usedTP = @ \cup {e.params.typhoonProbability}]
           day(w, severity, e1) ==
             IF w = "Typhoon"
             THEN [e1 EXCEPT !.cycleTyphoonSeverityCounts[severity] = @ + 1,
                             !.cycleTyphoonSeveritySequence = Append(@, severity)]
             ELSE [e1 EXCEPT !.cycleTyphoonSeveritySequence = Append(@, NULL)]
           sampled(w) == day(w, getTyphoonSeverity(draws[d + 1][2]), pushed(w))
           rest(e2) == prepareDays(e2, draws, d + 1)
       IN With(With(getWeather(e.params.plantingMonth, e.params.typhoonProbability,
                               draws[d + 1][1]),
                    sampled),
               rest)

prepareCycle(e, draws) ==
  LET e0 == [e EXCEPT !.cycleWeatherSequence = <<>>,
                      !.cycleWeatherAccum = ZeroWeather,
                      !.cycleTyphoonSeverityCounts = ZeroSeverity,
                      !.cycleTyphoonSeveritySequence = <<>>,
                      !.usedCyc = {CycleView(e.params)}, !.usedTP = {}]
      prepared(e1) ==
        [e1 EXCEPT !.currentDay = 0,
                   !.currentWeather = IF Len(e1.cycleWeatherSequence) > 0
                                      THEN e1.cycleWeatherSequence[1] ELSE NULL,
                   !.currentCycleWeatherTimeline = <<>>]
  IN With(prepareDays(e0, draws, 0), prepared)

finalizeCycle(e, season, dominantWeather, noise) ==
  LET sc == e.cycleTyphoonSeverityCounts
      typhoonDays == sc.Moderate + sc.Severe
      dominantTyphoonSeverity ==
        IF dominantWeather = "Typhoon" /\ typhoonDays > 0
        THEN (IF sc.Severe >= sc.Moderate THEN "Severe" ELSE "Moderate")
        ELSE NULL
      count == e.welfordCount + 1
      welford(x, oldMean) == welfordUpdate(x, oldMean, count)
      cycleRecord(yld) ==
        [ cycleIndex |-> e.currentCycleIndex + 1,
          yieldTons |-> yld,
          yieldSacks |-> yld * 2,
          season |-> season,
          weather |-> dominantWeather,
          dominantTyphoonSeverity |-> dominantTyphoonSeverity,
          typhoonDays |-> typhoonDays,
          severeTyphoonDays |-> sc.Severe,
          ensoState |-> e.params.ensoState,
          irrigationType |-> e.params.irrigationType,
          plantingMonth |-> e.params.plantingMonth,
          typhoonProbability |-> e.params.typhoonProbability ]
      \* lines 479-531: tallies, running statistics, series and the record
      tallied(yld, w, d, n) ==
        [e EXCEPT
           !.currentYield = yld,
           !.weatherCounts[dominantWeather] = @ + 1,
           !.dailyWeatherCounts =
              IF e.mode = "cycle"
              THEN [k \in WeatherSet |-> @[k] + e.cycleWeatherAccum[k]] ELSE @,
           !.dailyTyphoonSeverityCounts =
              IF e.mode = "cycle"
              THEN [k \in Severities |-> @[k] + sc[k]] ELSE @,
           !.welfordCount = count,
           !.welfordMean = w.mean,
           !.welfordM2 = @ + w.m2,
           !.deterministicMean = d.mean,
           !.deterministicM2 = @ + d.m2,
           !.noiseMean = n.mean,
           !.noiseM2 = @ + n.m2,
           !.lowYieldCount = IF yld < LOW_YIELD THEN @ + 1 ELSE @,
           !.minYield = IF yld < @ THEN yld ELSE @,
           !.maxYield = IF yld > @ THEN yld ELSE @,
           !.allYields = Append(@, yld),
           !.histogramBins = addToBin(@, yld),
           !.yieldHistoryOverTime = SliceLast(Append(@, w.mean), MAX_SERIES),
           !.yieldSeries =
              SliceLast(Append(@, [cycle |-> e.currentCycleIndex + 1, yield |-> yld]),
                        MAX_SERIES),
           !.recentYields = Append(SliceLast(@, RECENT_KEEP), yld),
           !.cycleRecords = Append(@, cycleRecord(yld)),
           !.usedCyc = {},
           !.usedTP = {},
           !.recUsedCyc = Append(@, e.usedCyc \cup {CycleView(e.params)}),
           !.recUsedTP = Append(@, e.usedTP)]
      computed(y) ==
        tallied(y.final,
                welford(y.final, e.welfordMean),
                welford(y.deterministic, e.deterministicMean),
                welford(y.noise, e.noiseMean))
      \* lines 533-542: summary cache and the band series
      summarised(e1, summary) ==
        [e1 EXCEPT
           !.summaryCache = summary,
           !.yieldBandSeries =
              IF summary # NoSummary
              THEN SliceLast(Append(@, [cycle |-> e.currentCycleIndex + 1,
                                        mean |-> summary[1].mean,
                                        p5 |-> summary[1].percentile5,
                                        p95 |-> summary[1].percentile95]),
                             MAX_SERIES)
              ELSE @]
      withSummary(e1) == With(computeSummary(e1), LAMBDA summary : summarised(e1, summary))
      \* lines 544-554: commit the pending overlay, move to the next cycle
      rolledOver(e2) ==
        [e2 EXCEPT
           !.params = Spread(e2.params, e2.pendingParams),
           !.pendingParams = EmptyPartial,
           !.currentCycleIndex = @ + 1,
           !.currentDay = 0,
           !.cycleWeatherAccum = ZeroWeather,
           !.cycleTyphoonSeverityCounts = ZeroSeverity,
           !.cycleTyphoonSeveritySequence = <<>>,
           !.currentCycleWeatherTimeline = <<>>,
           !.cycleWeatherSequence = <<>>]
  IN With(With(With(computeYield(dominantWeather, e.params, dominantTyphoonSeverity, noise),
                    computed),
               withSummary),
          rolledOver)

\* tickDay that draws the severity of a Typhoon day and does not count it
tickDay_noSeverity(e, r1, r2, noise) ==
  IF e.currentCycleIndex >= e.params.cyclesTarget THEN finish(e)
  ELSE
    LET season == getSeason(e.params.plantingMonth)
        severe(weather, typhoonSeverity) == e
        timeline(pushed) ==
          IF Len(pushed) > e.params.daysPerCycle THEN Tail(pushed) ELSE pushed
        counted(weather, e1) ==
          [e1 EXCEPT
             !.currentDay = @ + 1,
             !.currentWeather = weather,
             !.cycleWeatherAccum[weather] = @ + 1,
             !.dailyWeatherCounts[weather] = @ + 1,
             !.currentCycleWeatherTimeline = timeline(Append(@, weather)),
             !.usedCyc = @ \cup {CycleView(e.params)},
             !.usedTP = @ \cup {e.params.typhoonProbability}]
        sampled(weather) ==
          counted(weather, severe(weather, getTyphoonSeverity(r2)))
        ended(e2) ==
          IF e2.currentDay >= e2.params.daysPerCycle
          THEN finalizeCycle(e2, season, getDominantWeather(e2), noise)
          ELSE e2
    IN With(With(getWeather(e.params.plantingMonth, e.params.typhoonProbability, r1),
                 sampled),
            ended)

\* r1, r2: the draws of getWeather and getTyphoonSeverity; noise: of gaussianNoise
tickDay(e, r1, r2, noise) ==
  IF e.currentCycleIndex >= e.params.cyclesTarget THEN finish(e)
  ELSE
    LET season == getSeason(e.params.plantingMonth)
        severe(weather, typhoonSeverity) ==
          IF weather = "Typhoon"
          THEN [e EXCEPT !.cycleTyphoonSeverityCounts[typhoonSeverity] = @ + 1,
                         !.dailyTyphoonSeverityCounts[typhoonSeverity] = @ + 1]
          ELSE e
        timeline(pushed) ==
          IF Len(pushed) > e.params.daysPerCycle THEN Tail(pushed) ELSE pushed
        counted(weather, e1) ==
          [e1 EXCEPT
             !.currentDay = @ + 1,
             !.currentWeather = weather,
             !.cycleWeatherAccum[weather] = @ + 1,
             !.dailyWeatherCounts[weather] = @ + 1,
             !.currentCycleWeatherTimeline = timeline(Append(@, weather)),
             !.usedCyc = @ \cup {CycleView(e.params)},
             !.usedTP = @ \cup {e.params.typhoonProbability}]
        sampled(weather) ==
          counted(weather, severe(weather, getTyphoonSeverity(r2)))
        ended(e2) ==
          IF e2.currentDay >= e2.params.daysPerCycle
          THEN finalizeCycle(e2, season, getDominantWeather(e2), noise)
          ELSE e2
    IN With(With(getWeather(e.params.plantingMonth, e.params.typhoonProbability, r1),
                 sampled),
            ended)

\* the draws one prepareCycle call consumes
PrepareDraws(e, rand) == [1..e.params.daysPerCycle -> rand \X rand]

\* lines 425-432 of tickCycle: the displayed day follows the elapsed fraction
cycleProgress(e, cycleMs) ==
  LET dayIndex == Min(e.params.daysPerCycle,
                      (Min(cycleMs, e.cycleElapsedMs) * e.params.daysPerCycle) \div cycleMs)
      idx == Max(0, dayIndex - 1)
  IN IF dayIndex # e.currentDay
     THEN [e EXCEPT !.currentDay = dayIndex,
                    !.currentWeather = IF idx + 1 <= Len(e.cycleWeatherSequence)
                                       THEN e.cycleWeatherSequence[idx + 1] ELSE @,
                    !.currentCycleWeatherTimeline =
                       SubSeq(e.cycleWeatherSequence, 1,
                              Min(dayIndex, Len(e.cycleWeatherSequence)))]
     ELSE e

\* the while loop of tickCycle and what follows it: the set of engine states
\* it can end in, over the draws in rand and noises
RECURSIVE cycleWhile(_, _, _, _)
cycleWhile(e, cycleMs, rand, noises) ==
  IF e.cycleElapsedMs >= cycleMs /\ e.status = "running"
  THEN LET e1 == [e EXCEPT !.currentDay = e.params.daysPerCycle,
                           !.currentCycleWeatherTimeline = e.cycleWeatherSequence]
           dominantWeather == getDominantWeather(e1)
           season == getSeason(e1.params.plantingMonth)
       IN UNION {
            IF e2.currentCycleIndex >= e2.params.cyclesTarget
            THEN {finish(e2)}
            ELSE UNION { cycleWhile(e3, cycleMs, rand, noises)
                         : e3 \in { prepareCycle([e2 EXCEPT !.cycleElapsedMs = @ - cycleMs], dr)
                                    : dr \in PrepareDraws(e2, rand) } }
            : e2 \in {finalizeCycle(e1, season, dominantWeather, nz) : nz \in noises} }
  ELSE {cycleProgress(e, cycleMs)}

tickCycle(e, deltaMs, rand, noises) ==
  IF e.currentCycleIndex >= e.params.cyclesTarget THEN {finish(e)}
  ELSE LET prepared == IF Len(e.cycleWeatherSequence) = 0
                       THEN {prepareCycle(e, dr) : dr \in PrepareDraws(e, rand)}
                       ELSE {e}
       IN UNION { cycleWhile([e1 EXCEPT !.cycleElapsedMs = @ + deltaMs],
                             cycleDurationMs(e1), rand, noises)
                  : e1 \in prepared }

\* the day branch with an if in place of the while: one day per callback
dayWhile_once(e, msPerDay, rand, noises) ==
  IF e.accumulatedMs >= msPerDay /\ e.status = "running"
  THEN { tickDay([e EXCEPT !.accumulatedMs = @ - msPerDay], r1, r2, nz)
         : r1 \in rand, r2 \in rand, nz \in noises }
  ELSE {e}

\* the while loop of the day branch of the frame callback
RECURSIVE dayWhile(_, _, _, _)
dayWhile(e, msPerDay, rand, noises) ==
  IF e.accumulatedMs >= msPerDay /\ e.status = "running"
  THEN UNION { dayWhile(e1, msPerDay, rand, noises)
               : e1 \in { tickDay([e EXCEPT !.accumulatedMs = @ - msPerDay], r1, r2, nz)
                          : r1 \in rand, r2 \in rand, nz \in noises } }
  ELSE {e}

\* a throttle test that lets every callback emit
shouldEmit_always(age) == TRUE

\* now2 - lastEmitTime >= EMIT_INTERVAL_MS
shouldEmit(age) == age >= EMIT_INTERVAL_MS

\* the end of the callback: lastEmitAge holds now2 - lastEmitTime, saturated
\* at EMIT_INTERVAL_MS
throttle(e) ==
  IF shouldEmit(e.lastEmitAge) THEN [emit(e, FALSE) EXCEPT !.lastEmitAge = 0] ELSE e

\* the callback without its test of the status
frame_unguarded(e, elapsed, rand, noises) ==
  LET delta == IF e.lastTime = NULL THEN FIRST_FRAME_MS ELSE elapsed
      e1 == [e EXCEPT !.lastTime = "set"]
      stepped ==
        IF e1.mode = "day"
        THEN dayWhile_once([e1 EXCEPT !.accumulatedMs = @ + delta],
                           2000 \div e1.speedMultiplier, rand, noises)
        ELSE {[e1 EXCEPT !.cycleElapsedMs = @ + delta]}
  IN { IF e2.status = "running" THEN loop(e2) ELSE e2 : e2 \in stepped }

\* the callback loop() hands to requestAnimationFrame; elapsed = now - the
\* previous frame's time
frame(e, elapsed, rand, noises) ==
  IF e.status # "running" THEN {e}
  ELSE
    LET delta == IF e.lastTime = NULL THEN FIRST_FRAME_MS ELSE elapsed
        e1 == [e EXCEPT !.lastTime = "set"]
        stepped ==
          IF e1.mode = "day"
          THEN dayWhile([e1 EXCEPT !.accumulatedMs = @ + delta],
                        2000 \div e1.speedMultiplier, rand, noises)
          ELSE tickCycle(e1, delta, rand, noises)
    IN { LET e3 == throttle([e2 EXCEPT !.lastEmitAge = Min(EMIT_INTERVAL_MS, @ + elapsed)])
         IN IF e3.status = "running" THEN loop(e3) ELSE e3
         : e2 \in stepped }

----------------------------------------------------------------------------
(* Inputs *)

\* uniform draws (1/1000) handed to getWeather and getTyphoonSeverity
RandDraws == {970}

\* values of gaussianNoise(), in tenths
NoiseDraws == {0}

\* now - lastTime of a frame, ms
Deltas == {500, 1000}

\* arguments of setSpeed, in halves
SpeedInputs == {4}

DefaultParams ==
  [ plantingMonth |-> 6, irrigationType |-> "Irrigated", ensoState |-> "Neutral",
    typhoonProbability |-> 15, cyclesTarget |-> MaxCycles, daysPerCycle |-> MaxDays ]

\* arguments of updateParams
UpdateInputs ==
  { [ensoState |-> "ElNino", plantingMonth |-> 1],
    [typhoonProbability |-> 0, irrigationType |-> "Rainfed",
     cyclesTarget |-> 1, daysPerCycle |-> 1] }

----------------------------------------------------------------------------
(* Operations: each is the relation between the engine before and after *)

\* subscribe(listener): Set.add, then one direct call with the snapshot; the
\* caller gets a function that deletes the listener from the set
subscribe(e, listener) ==
  LET e1 == [e EXCEPT !.listeners = @ \cup {listener}, !.handles[listener] = @ + 1]
  IN [e1 EXCEPT !.emitted = Append(@, [ via |-> "subscribe", age |-> NULL,
                                        calls |-> [l \in {listener} |-> snapshot(e1)] ])]

\* the function subscribe(listener) returned
unsubscribe(e, listener) ==
  [e EXCEPT !.listeners = @ \ {listener}, !.handles[listener] = @ - 1]

\* start() / startInstant() queue one more callback; the model stops at
\* MaxLeaked callbacks whose id has been overwritten
MayQueue(e) == ~e.rafLive \/ e.rafLeaked < MaxLeaked

\* start() that does not call resetInternals
start_keepsRun(e) ==
  LET e2 == [e EXCEPT !.mode = "day", !.status = "running", !.lastTime = NULL,
                      !.accumulatedMs = 0]
  IN emit(loop(e2), TRUE)

start(e) ==
  LET e1 == resetInternals([e EXCEPT !.mode = "day"])
      e2 == [e1 EXCEPT !.status = "running", !.lastTime = NULL, !.accumulatedMs = 0]
  IN emit(loop(e2), TRUE)

\* startInstant() that leaves the mode at day
startInstant_dayMode(e, draws) ==
  LET e1 == resetInternals([e EXCEPT !.mode = "day"])
      e2 == [e1 EXCEPT !.status = "running", !.lastTime = NULL,
                       !.accumulatedMs = 0, !.cycleElapsedMs = 0]
  IN emit(loop(prepareCycle(e2, draws)), TRUE)

startInstant(e, draws) ==
  LET e1 == resetInternals([e EXCEPT !.mode = "cycle"])
      e2 == [e1 EXCEPT !.status = "running", !.lastTime = NULL,
                       !.accumulatedMs = 0, !.cycleElapsedMs = 0]
  IN emit(loop(prepareCycle(e2, draws)), TRUE)

\* pause() that cancels the frame but forgets the status assignment
pause_keepsStatus(e) ==
  IF e.status # "running" THEN e
  ELSE LET e1 == cancelAnimationFrame(e)
       IN emit([e1 EXCEPT !.rafId = NULL], TRUE)

\* pause() without its status guard
pause_unguarded(e) ==
  LET e1 == cancelAnimationFrame([e EXCEPT !.status = "paused"])
  IN emit([e1 EXCEPT !.rafId = NULL], TRUE)

pause(e) ==
  IF e.status # "running" THEN e
  ELSE LET e1 == cancelAnimationFrame([e EXCEPT !.status = "paused"])
       IN emit([e1 EXCEPT !.rafId = NULL], TRUE)

\* resume() whose guard tests for running instead of paused
resume_wrongGuard(e) ==
  IF e.status = "running" THEN e
  ELSE LET e1 == [e EXCEPT !.status = "running", !.lastTime = NULL, !.resumes = @ + 1]
       IN emit(loop(e1), TRUE)

\* resume() that keeps the time of the last frame before the pause
resume_keepsLastTime(e) ==
  IF e.status # "paused" THEN e
  ELSE LET e1 == [e EXCEPT !.status = "running", !.resumes = @ + 1]
       IN emit(loop(e1), TRUE)

resume(e) ==
  IF e.status # "paused" THEN e
  ELSE LET e1 == [e EXCEPT !.status = "running", !.lastTime = NULL, !.resumes = @ + 1]
       IN emit(loop(e1), TRUE)

\* reset() that throws the staged overlay away instead of applying it
reset_dropsStaged(e) ==
  LET e1 == cancelAnimationFrame(e)
      e2 == [e1 EXCEPT !.rafId = NULL, !.status = "idle", !.pendingParams = EmptyPartial]
  IN emit(resetInternals(e2), TRUE)

reset(e) ==
  LET e1 == cancelAnimationFrame(e)
      e2 == [e1 EXCEPT !.rafId = NULL, !.status = "idle"]
  IN emit(resetInternals(e2), TRUE)

setSpeed(e, multiplier) ==
  emit([e EXCEPT !.speedMultiplier = Max(1, multiplier)], TRUE)

\* updateParams that treats a paused run as inactive
updateParams_pausedNotActive(e, partial) ==
  LET rest == Omit(partial, {"typhoonProbability"})
      e1 == IF DOMAIN partial \cap {"typhoonProbability"} # {}
            THEN [e EXCEPT !.params = Spread(@, Restrict(partial, {"typhoonProbability"}))]
            ELSE e
      isActive == e1.status = "running"
  IN emit(IF ~isActive
          THEN [e1 EXCEPT !.params = Spread(@, rest), !.pendingParams = EmptyPartial]
          ELSE IF DOMAIN rest # {}
          THEN [e1 EXCEPT !.pendingParams = Spread(@, rest)]
          ELSE e1,
          TRUE)

\* updateParams that treats a running run as inactive
updateParams_runningNotActive(e, partial) ==
  LET rest == Omit(partial, {"typhoonProbability"})
      e1 == IF DOMAIN partial \cap {"typhoonProbability"} # {}
            THEN [e EXCEPT !.params = Spread(@, Restrict(partial, {"typhoonProbability"}))]
            ELSE e
      isActive == e1.status = "paused"
  IN emit(IF ~isActive
          THEN [e1 EXCEPT !.params = Spread(@, rest), !.pendingParams = EmptyPartial]
          ELSE IF DOMAIN rest # {}
          THEN [e1 EXCEPT !.pendingParams = Spread(@, rest)]
          ELSE e1,
          TRUE)

\* updateParams that applies ensoState at once, as it does typhoonProbability
updateParams_ensoLive(e, partial) ==
  LET rest == Omit(partial, {"typhoonProbability", "ensoState"})
      e1 == IF DOMAIN partial \cap {"typhoonProbability", "ensoState"} # {}
            THEN [e EXCEPT !.params = Spread(@, Restrict(partial, {"typhoonProbability", "ensoState"}))]
            ELSE e
      isActive == e1.status = "running" \/ e1.status = "paused"
  IN emit(IF ~isActive
          THEN [e1 EXCEPT !.params = Spread(@, rest), !.pendingParams = EmptyPartial]
          ELSE IF DOMAIN rest # {}
          THEN [e1 EXCEPT !.pendingParams = Spread(@, rest)]
          ELSE e1,
          TRUE)

\* updateParams that stages typhoonProbability like every other field
updateParams_nothingLive(e, partial) ==
  LET rest == Omit(partial, {})
      e1 == IF DOMAIN partial \cap {} # {}
            THEN [e EXCEPT !.params = Spread(@, Restrict(partial, {}))]
            ELSE e
      isActive == e1.status = "running" \/ e1.status = "paused"
  IN emit(IF ~isActive
          THEN [e1 EXCEPT !.params = Spread(@, rest), !.pendingParams = EmptyPartial]
          ELSE IF DOMAIN rest # {}
          THEN [e1 EXCEPT !.pendingParams = Spread(@, rest)]
          ELSE e1,
          TRUE)

updateParams(e, partial) ==
  LET rest == Omit(partial, {"typhoonProbability"})
      e1 == IF "typhoonProbability" \in DOMAIN partial
            THEN [e EXCEPT !.params = Spread(@, Restrict(partial, {"typhoonProbability"}))]
            ELSE e
      isActive == e1.status = "running" \/ e1.status = "paused"
  IN emit(IF ~isActive
          THEN [e1 EXCEPT !.params = Spread(@, rest), !.pendingParams = EmptyPartial]
          ELSE IF DOMAIN rest # {}
          THEN [e1 EXCEPT !.pendingParams = Spread(@, rest)]
          ELSE e1,
          TRUE)

\* the host runs one queued animation-frame callback: the one rafId names
\* (tracked) or one whose id was overwritten
rafCallback(e, elapsed, tracked, rand, noises) ==
  frame(IF tracked THEN [e EXCEPT !.rafLive = FALSE] ELSE [e EXCEPT !.rafLeaked = @ - 1],
        elapsed, rand, noises)

CanFire(e, tracked) == IF tracked THEN e.rafLive ELSE e.rafLeaked > 0

----------------------------------------------------------------------------
(* Actions *)

\* the engine once the operation has returned: its listener calls are over
Quiet(e) == [e EXCEPT !.emitted = <<>>]

\* what the latest step was: the operation, the status it was called in,
\* whether the pending overlay held anything at the call, and the listener
\* calls made before it returned the engine as r
Step(op, e, r) ==
  [op |-> op, from |-> e.status, staged |-> e.pendingParams # EmptyPartial,
   emitted |-> r.emitted]

Start ==
  /\ MayQueue(eng)
  /\ \E r \in {start(eng)} :
       /\ eng' = Quiet(r)
       /\ last' = Step("start", eng, r)

StartInstant ==
  /\ MayQueue(eng)
  /\ \E draws \in PrepareDraws(resetInternals(eng), RandDraws) :
       \E r \in {startInstant(eng, draws)} :
         /\ eng' = Quiet(r)
         /\ last' = Step("startInstant", eng, r)

Pause ==
  /\ \E r \in {pause(eng)} :
       /\ eng' = Quiet(r)
       /\ last' = Step("pause", eng, r)

Resume ==
  /\ eng.status = "paused" => eng.resumes < MaxResumes
  /\ \E r \in {resume(eng)} :
       /\ eng' = Quiet(r)
       /\ last' = Step("resume", eng, r)

Reset ==
  /\ \E r \in {reset(eng)} :
       /\ eng' = Quiet(r)
       /\ last' = Step("reset", eng, r)

SetSpeed ==
  /\ \E m \in SpeedInputs :
       \E r \in {setSpeed(eng, m)} :
         /\ eng' = Quiet(r)
         /\ last' = Step("setSpeed", eng, r)

UpdateParams ==
  /\ \E partial \in UpdateInputs :
       \E r \in {updateParams(eng, partial)} :
         /\ eng' = Quiet(r)
         /\ last' = Step("updateParams", eng, r)

RafCallback ==
  /\ \E elapsed \in Deltas, tracked \in BOOLEAN :
       /\ CanFire(eng, tracked)
       /\ \E r \in rafCallback(eng, elapsed, tracked, RandDraws, NoiseDraws) :
            /\ eng' = Quiet(r)
            /\ last' = Step("rafCallback", eng, r)

Init ==
  /\ eng = NewEngine(DefaultParams)
  /\ last = [op |-> "new", from |-> "idle", staged |-> FALSE, emitted |-> <<>>]

Next ==
  \/ Start
  \/ StartInstant
  \/ Pause
  \/ Resume
  \/ Reset
  \/ SetSpeed
  \/ UpdateParams
  \/ RafCallback

Spec == Init /\ [][Next]_vars

----------------------------------------------------------------------------
(* Vocabulary of the properties *)

Active(e) == e.status \in {"running", "paused"}

NonLive(p) == Restrict(p, NonLiveFields)

\* the overlay holds every field of rest with rest's value
Holds(overlay, rest) ==
  \A f \in DOMAIN rest : f \in DOMAIN overlay /\ overlay[f] = rest[f]

\* cycles completed in the current run
Completed(e) == Len(e.cycleRecords)

\* animation-frame callbacks the host still has queued
Outstanding(e) == e.rafLeaked + (IF e.rafLive THEN 1 ELSE 0)

----------------------------------------------------------------------------
(* C1 *)

\* C1: updateParams with non-live fields, called while running or paused,
\* leaves the non-live fields of params as they were and records the new
\* values in the pending overlay; called while idle it writes them to params
\* in that call and leaves the overlay empty.
C1_UpdateStagesWhenActive ==
  [][\A partial \in UpdateInputs :
       ( /\ last'.op = "updateParams"
         /\ eng' = Quiet(updateParams(eng, partial))
         /\ DOMAIN partial \cap NonLiveFields # {} )
       => IF Active(eng)
          THEN /\ NonLive(eng'.params) = NonLive(eng.params)
               /\ Holds(eng'.pendingParams, NonLive(partial))
          ELSE (eng.status = "idle") =>
               /\ Holds(eng'.params, NonLive(partial))
               /\ eng'.pendingParams = EmptyPartial
     ]_vars

\* a non-live update was made while paused and is held in the overlay
C1_Witness ==
  /\ last.op = "updateParams"
  /\ last.from = "paused"
  /\ "ensoState" \in DOMAIN eng.pendingParams
  /\ eng.pendingParams.ensoState = "ElNino"
  /\ eng.params.ensoState = "Neutral"

----------------------------------------------------------------------------
(* C2 *)

\* C2: every completed cycle, in both run modes, read one and the same value
\* of each of plantingMonth, irrigationType, ensoState and daysPerCycle for
\* all its day samples, its season, its length and its yield; so does the
\* cycle in progress.
C2_NoMixedCycle ==
  /\ \A i \in 1..Len(eng.recUsedCyc) : Cardinality(eng.recUsedCyc[i]) = 1
  /\ Cardinality(eng.usedCyc) <= 1
  /\ Len(eng.recUsedCyc) = Len(eng.cycleRecords)

\* two cycles of one run were computed under different settings, the change
\* having been staged while the first was in progress
C2_Witness ==
  /\ Len(eng.recUsedCyc) >= 2
  /\ eng.recUsedCyc[1] # eng.recUsedCyc[2]
  /\ eng.cycleRecords[1].ensoState = "Neutral"
  /\ eng.cycleRecords[2].ensoState = "ElNino"

----------------------------------------------------------------------------
(* C3 *)

\* the step finalized at least one cycle
Finalized == last'.op = "rafCallback" /\ Completed(eng') > Completed(eng)

\* the step wrote the whole overlay into params and emptied it
CommittedAll ==
  /\ NonLive(eng'.params) = NonLive(Spread(eng.params, eng.pendingParams))
  /\ eng'.pendingParams = EmptyPartial

\* C3 as stated: while a run is active the non-live fields of params change
\* only in a cycle-finalization step, which writes every field of the overlay
\* together and leaves the overlay empty.
C3_Original ==
  [][Active(eng) =>
       /\ (NonLive(eng'.params) # NonLive(eng.params)) => Finalized
       /\ Finalized => CommittedAll
    ]_vars

\* C3 amended: while a run is active the non-live fields of params change only
\* in a cycle-finalization step or in a reset(), start() or startInstant()
\* call; each of these steps writes every field of the overlay together and
\* leaves the overlay empty, so no step applies only part of it.
C3_CommitOnlyWhole ==
  [][Active(eng) =>
       LET Commits == Finalized \/ last'.op \in {"reset", "start", "startInstant"}
       IN /\ (NonLive(eng'.params) # NonLive(eng.params)) => Commits
          /\ Commits => CommittedAll
    ]_vars

\* a finalization has just committed a two-field overlay in a day-mode run
C3_Witness ==
  /\ last.op = "rafCallback"
  /\ last.staged
  /\ eng.mode = "day"
  /\ eng.status = "running"
  /\ eng.pendingParams = EmptyPartial
  /\ Completed(eng) = 1
  /\ eng.cycleRecords[1].ensoState = "Neutral"
  /\ eng.cycleRecords[1].plantingMonth = 6
  /\ eng.params.ensoState = "ElNino"
  /\ eng.params.plantingMonth = 1

----------------------------------------------------------------------------
(* C4 *)

\* C4: whenever status is idle or finished the pending overlay is empty.
C4_Original ==
  eng.status \in {"idle", "finished"} => eng.pendingParams = EmptyPartial

----------------------------------------------------------------------------
(* C5 *)

AllowedOriginal(from, to, op) ==
  \/ from = "idle" /\ to = "running" /\ op \in {"start", "startInstant"}
  \/ from = "running" /\ to = "paused" /\ op = "pause"
  \/ from = "running" /\ to = "finished" /\ op = "rafCallback"
  \/ from = "paused" /\ to = "running" /\ op = "resume"
  \/ from \in {"running", "paused", "finished"} /\ to = "idle" /\ op = "reset"

\* pause() outside running, resume() outside paused, reset() in idle
IgnoredCall ==
  \/ last'.op = "pause" /\ eng.status # "running"
  \/ last'.op = "resume" /\ eng.status # "paused"
  \/ last'.op = "reset" /\ eng.status = "idle"

----------------------------------------------------------------------------
(* C6 *)

\* C6: start() or startInstant() called while idle leaves status running,
\* pause() called while running leaves it paused, resume() called while
\* paused leaves it running.
C6_ControlReaches ==
  [][/\ (last'.op \in {"start", "startInstant"} /\ eng.status = "idle")
           => eng'.status = "running"
     /\ (last'.op = "pause" /\ eng.status = "running") => eng'.status = "paused"
     /\ (last'.op = "resume" /\ eng.status = "paused") => eng'.status = "running"
    ]_vars

\* resume() has just been called on a paused cycle-mode run
C6_Witness ==
  /\ last.op = "resume"
  /\ last.from = "paused"
  /\ eng.status = "running"
  /\ eng.mode = "cycle"

----------------------------------------------------------------------------
(* C7 *)

\* C7: pause() called while status is not running and resume() called while
\* status is not paused change no field of the engine (status, params,
\* overlay, indices, statistics, accumulators, scheduled callback).
C7_IgnoredPauseResume ==
  [][( \/ last'.op = "pause" /\ eng.status # "running"
       \/ last'.op = "resume" /\ eng.status # "paused" )
       => eng' = eng
    ]_vars

\* pause() has just been called on a finished run that holds results
C7_Witness ==
  /\ last.op = "pause"
  /\ last.from = "finished"
  /\ eng.status = "finished"
  /\ Completed(eng) >= 1

----------------------------------------------------------------------------
(* C8 *)

\* everything reset() is said to leave behind
ResetState(e) ==
  /\ e.status = "idle"
  /\ e.currentCycleIndex = 0
  /\ e.currentDay = 0
  /\ e.welfordCount = 0 /\ e.welfordMean = 0 /\ e.welfordM2 = 0
  /\ e.deterministicMean = 0 /\ e.deterministicM2 = 0
  /\ e.noiseMean = 0 /\ e.noiseM2 = 0
  /\ e.lowYieldCount = 0
  /\ e.weatherCounts = ZeroWeather
  /\ e.dailyWeatherCounts = ZeroWeather
  /\ e.dailyTyphoonSeverityCounts = ZeroSeverity
  /\ \A i \in 1..Len(e.histogramBins) : e.histogramBins[i] = 0
  /\ e.yieldHistoryOverTime = <<>> /\ e.recentYields = <<>>
  /\ e.yieldSeries = <<>> /\ e.yieldBandSeries = <<>>
  /\ e.cycleRecords = <<>>
  /\ e.summaryCache = NoSummary

\* C8: reset() leaves status idle, every counter, tally and bin zero, every
\* series and cycleRecords empty, summary null and no scheduled callback
\* pending, and a second reset() leaves exactly the same state.
C8_Original ==
  last.op = "reset" =>
    /\ ResetState(eng)
    /\ Outstanding(eng) = 0
    /\ Quiet(reset(eng)) = eng

----------------------------------------------------------------------------
(* C9 *)

\* C9: reset() called while the overlay is non-empty leaves params equal to
\* the previous params overlaid with every pending field, and the overlay
\* empty.
C9_ResetKeepsStaged ==
  [][(last'.op = "reset" /\ eng.pendingParams # EmptyPartial) =>
       /\ eng'.params = Spread(eng.params, eng.pendingParams)
       /\ eng'.pendingParams = EmptyPartial
    ]_vars

\* reset() was called on a paused run with a staged change, which is now in params
C9_Witness ==
  /\ last.op = "reset"
  /\ last.staged
  /\ last.from = "paused"
  /\ eng.status = "idle"
  /\ eng.params.ensoState = "ElNino"
  /\ eng.params.plantingMonth = 1

----------------------------------------------------------------------------
(* C10 *)

\* records completed by the step
NewRecords == (Completed(eng) + 1)..Completed(eng')

\* the typhoonProbability values read by the day samples of the step (a
\* superset: those of the cycle that was in progress are included)
SampledTP ==
  (eng'.usedTP \cup UNION {eng'.recUsedTP[i] : i \in NewRecords})

DaysTallied(e) == SumSeq([i \in 1..Len(WeatherTypes) |-> e.dailyWeatherCounts[WeatherTypes[i]]])

\* C10: updateParams carrying typhoonProbability writes it into params in
\* that call in every status; typhoonProbability is never held in the
\* overlay; in day mode every day sampled by a later callback reads the value
\* params holds at that callback, that is the one last written.
C10_TyphoonProbabilityLive ==
  [][/\ \A partial \in UpdateInputs :
          ( /\ last'.op = "updateParams"
            /\ eng' = Quiet(updateParams(eng, partial))
            /\ "typhoonProbability" \in DOMAIN partial )
          => eng'.params.typhoonProbability = partial.typhoonProbability
     /\ "typhoonProbability" \notin DOMAIN eng'.pendingParams
     /\ ( /\ last'.op = "rafCallback"
          /\ eng.mode = "day"
          /\ DaysTallied(eng') > DaysTallied(eng) )
          => /\ eng.params.typhoonProbability \in SampledTP
             /\ SampledTP \subseteq eng.usedTP \cup {eng.params.typhoonProbability}
             /\ \A i \in NewRecords :
                  i > Completed(eng) + 1 =>
                    eng'.recUsedTP[i] = {eng.params.typhoonProbability}
    ]_vars

\* a day-mode cycle whose first day was sampled at 15 % and whose second day,
\* after an updateParams made while running, was sampled at 0 %
C10_Witness ==
  /\ eng.mode = "day"
  /\ Completed(eng) >= 1
  /\ eng.recUsedTP[1] = {0, 15}
  /\ eng.cycleRecords[1].typhoonProbability = 0

----------------------------------------------------------------------------
(* C11 *)

\* C11: a finalization step writes into the record of the cycle that was in
\* progress the ensoState params held before the step, and its yield is
\* computed with that value's adjustment; when the overlay held an ensoState
\* X, every record appended after it carries X and params holds X after the
\* step; between finalizations of a run, no updateParams, pause, resume or
\* setSpeed call changes params.ensoState.
C11_EnsoNextCycle ==
  [][/\ Finalized =>
          LET k == Completed(eng) + 1
              rec == eng'.cycleRecords[k]
              next == Spread(eng.params, eng.pendingParams).ensoState
          IN /\ rec.ensoState = eng.params.ensoState
             /\ \E nz \in NoiseDraws :
                  rec.yieldTons =
                    computeYield(rec.weather, eng.params, rec.dominantTyphoonSeverity, nz).final
             /\ \A i \in (k + 1)..Completed(eng') : eng'.cycleRecords[i].ensoState = next
             /\ eng'.params.ensoState = next
     /\ (Active(eng) /\ last'.op \in {"updateParams", "pause", "resume", "setSpeed"})
          => eng'.params.ensoState = eng.params.ensoState
    ]_vars

\* two consecutive cycles of equal weather and irrigation: the first, in
\* progress when ensoState was changed, with the Neutral yield, the second
\* with the El Nino yield
C11_Witness ==
  /\ Completed(eng) >= 2
  /\ eng.mode = "day"
  /\ eng.cycleRecords[1].ensoState = "Neutral"
  /\ eng.cycleRecords[2].ensoState = "ElNino"
  /\ eng.cycleRecords[1].weather = eng.cycleRecords[2].weather
  /\ eng.cycleRecords[1].irrigationType = eng.cycleRecords[2].irrigationType
  /\ eng.cycleRecords[2].yieldTons = eng.cycleRecords[1].yieldTons + ENSO_ADJ.ElNino

----------------------------------------------------------------------------
(* C12 *)

\* the fields a CycleRecord reports about its parameters
RecordView(r) ==
  [plantingMonth |-> r.plantingMonth, irrigationType |-> r.irrigationType,
   ensoState |-> r.ensoState]

\* C12: every CycleRecord reports the plantingMonth, irrigationType and
\* ensoState its day samples and its yield were computed with, and a
\* typhoonProbability equal to the one every day sample of the cycle read.
C12_Original ==
  \A i \in 1..Completed(eng) :
    /\ {Restrict(v, {"plantingMonth", "irrigationType", "ensoState"}) : v \in eng.recUsedCyc[i]}
         = {RecordView(eng.cycleRecords[i])}
    /\ eng.recUsedTP[i] = {eng.cycleRecords[i].typhoonProbability}

----------------------------------------------------------------------------
(* C13 *)

\* C13: after a finalization there is no state with status running and
\* currentCycleIndex >= cyclesTarget.
C13_Original ==
  ~( /\ eng.status = "running"
     /\ Completed(eng) >= 1
     /\ eng.currentCycleIndex >= eng.params.cyclesTarget )

----------------------------------------------------------------------------
(* C15 *)

\* the fixed step of the run mode, the time its accumulator holds and the
\* number of steps (days, or whole cycles) a state has behind it
Quantum(e) == IF e.mode = "day" THEN 2000 \div e.speedMultiplier ELSE cycleDurationMs(e)

Accumulated(e) == IF e.mode = "day" THEN e.accumulatedMs ELSE e.cycleElapsedMs

StepsDone(e) == IF e.mode = "day" THEN DaysTallied(e) ELSE Completed(e)

\* a callback that found the engine running processed, with delta added to
\* the accumulator, every step that was due, or fewer and finished the run
CaughtUp(delta) ==
  LET total == Accumulated(eng) + delta
      due == total \div Quantum(eng)
      done == StepsDone(eng') - StepsDone(eng)
  IN /\ done <= due
     /\ done < due => eng'.status = "finished"
     /\ eng'.status = "running" => Accumulated(eng') = total % Quantum(eng)

\* C15: a callback with time delta processes exactly
\* floor((accumulated + delta) / quantum) steps, fewer only when the run
\* finishes inside it, and leaves the accumulator below one quantum.
C15_CatchUp ==
  [][(last'.op = "rafCallback" /\ eng.status = "running") =>
       /\ \E elapsed \in Deltas :
            CaughtUp(IF eng.lastTime = NULL THEN FIRST_FRAME_MS ELSE elapsed)
       /\ eng'.status = "running" => Accumulated(eng') < Quantum(eng')
    ]_vars

\* cycle mode at 2x (quantum 200 ms): a callback that brought the accumulator
\* to 516 ms finalized two cycles, the second of which finished the run with
\* 316 ms left
C15_Witness ==
  /\ last.op = "rafCallback"
  /\ eng.mode = "cycle"
  /\ eng.status = "finished"
  /\ cycleDurationMs(eng) = 200
  /\ Completed(eng) = 2
  /\ eng.cycleElapsedMs = 316

----------------------------------------------------------------------------
(* C16 *)

\* C16: after pause() followed by resume() the accumulated time carried into
\* the first callback is zero.
C16_Original ==
  (last.op = "resume" /\ last.from = "paused") =>
    /\ eng.accumulatedMs = 0
    /\ eng.cycleElapsedMs = 0

----------------------------------------------------------------------------
(* C17 *)

\* C17: resume() clears the time of the previous frame and adds nothing to
\* the accumulator; setSpeed and updateParams leave it cleared; the first
\* callback that then finds the engine running adds 16 ms, whatever time has
\* passed, and processes only the steps due with those 16 ms.
C17_PausedTimeNotCounted ==
  [][/\ (last'.op = "resume" /\ eng.status = "paused") =>
          /\ eng'.lastTime = NULL
          /\ Accumulated(eng') = Accumulated(eng)
     /\ (last'.op \in {"setSpeed", "updateParams"}) => eng'.lastTime = eng.lastTime
     /\ (last'.op = "rafCallback" /\ eng.status = "running" /\ eng.lastTime = NULL)
          => CaughtUp(FIRST_FRAME_MS)
    ]_vars

\* day mode: 16 ms from the first frame after start(), then pause, resume and
\* a callback that added 16 ms more and no day
C17_Witness ==
  /\ last.op = "rafCallback"
  /\ eng.mode = "day"
  /\ eng.status = "running"
  /\ eng.resumes = 1
  /\ eng.accumulatedMs = 2 * FIRST_FRAME_MS
  /\ DaysTallied(eng) = 0

----------------------------------------------------------------------------
(* C14: a run left to its scheduler *)

\* parameters of the runs: every target and cycle length up to the bounds
RunParams ==
  { [DefaultParams EXCEPT !.cyclesTarget = c, !.daysPerCycle = d]
    : c \in 1..MaxCycles, d \in 1..MaxDays }

\* draws: 970 gives Typhoon in the wet season, of Moderate severity
RunRand == {970}

\* now - lastTime of the frames, ms: all positive
RunDeltas == {20, 300, 1000}

\* the engine right after start() or startInstant() on a new engine
InitRun ==
  \E p \in RunParams :
    \/ \E r \in {start(NewEngine(p))} :
         /\ eng = Quiet(r)
         /\ last = Step("start", NewEngine(p), r)
    \/ \E draws \in PrepareDraws(NewEngine(p), RunRand) :
         \E r \in {startInstant(NewEngine(p), draws)} :
           /\ eng = Quiet(r)
           /\ last = Step("startInstant", NewEngine(p), r)

\* the host runs the registered frame callback
RunFrame ==
  /\ CanFire(eng, TRUE)
  /\ \E elapsed \in RunDeltas :
       \E r \in rafCallback(eng, elapsed, TRUE, RunRand, NoiseDraws) :
         /\ eng' = Quiet(r)
         /\ last' = Step("rafCallback", eng, r)

NextRun == RunFrame

\* the host keeps running the callback as long as one is registered
SpecRun == InitRun /\ [][NextRun]_vars /\ WF_vars(RunFrame)

BinTotal(e) == SumSeq(e.histogramBins)

\* C14: a run started with cyclesTarget >= 1 and daysPerCycle >= 1 whose
\* callback keeps firing and which receives no further call reaches status
\* finished, and whenever it is finished cycleRecords holds cyclesTarget
\* records and the histogram bin counts sum to cyclesTarget.
C14_RunCompletes ==
  /\ <>(eng.status = "finished")
  /\ [](eng.status = "finished" =>
          /\ Len(eng.cycleRecords) = eng.params.cyclesTarget
          /\ BinTotal(eng) = eng.params.cyclesTarget)

\* a day-mode run of two cycles of two days that has finished
C14_Witness ==
  /\ eng.status = "finished"
  /\ eng.mode = "day"
  /\ eng.params.cyclesTarget = 2
  /\ eng.params.daysPerCycle = 2
  /\ Len(eng.cycleRecords) = 2
  /\ BinTotal(eng) = 2
  /\ ~eng.rafLive

----------------------------------------------------------------------------
(* Subscribers: the engine with listeners attached *)

\* unsubscribe functions handed out and not yet called, over all listeners
MaxHandles == 2

\* frames inside the throttle interval come while the accumulator is below
\* this many ms
MaxFastMs == 50

\* a run of two one-day cycles
EmitParams == [DefaultParams EXCEPT !.cyclesTarget = 2, !.daysPerCycle = 1]

\* argument of updateParams
EmitUpdateInputs == {[typhoonProbability |-> 0]}

\* now - lastTime of the frames, ms: frames inside the throttle interval and
\* a delayed frame worth two days at 1x
EmitDeltas == {30, 2000}

\* unsubscribe functions handed out and not yet called
HandlesOut(e) ==
  Cardinality({p \in Listeners \X (1..MaxHandles) : p[2] <= e.handles[p[1]]})

Subscribe ==
  \E listener \in Listeners :
    /\ HandlesOut(eng) < MaxHandles
    /\ \E r \in {subscribe(eng, listener)} :
         /\ eng' = Quiet(r)
         /\ last' = Step("subscribe", eng, r)

\* the caller calls one of the functions subscribe() returned
Unsubscribe ==
  \E listener \in Listeners :
    /\ eng.handles[listener] > 0
    /\ \E r \in {unsubscribe(eng, listener)} :
         /\ eng' = Quiet(r)
         /\ last' = Step("unsubscribe", eng, r)

EmitFrame ==
  \E elapsed \in EmitDeltas, tracked \in BOOLEAN :
    /\ CanFire(eng, tracked)
    /\ elapsed < EMIT_INTERVAL_MS => Accumulated(eng) + elapsed <= MaxFastMs
    /\ \E r \in rafCallback(eng, elapsed, tracked, RandDraws, NoiseDraws) :
         /\ eng' = Quiet(r)
         /\ last' = Step("rafCallback", eng, r)

UpdateParamsEmit ==
  \E partial \in EmitUpdateInputs :
    \E r \in {updateParams(eng, partial)} :
      /\ eng' = Quiet(r)
      /\ last' = Step("updateParams", eng, r)

InitEmit ==
  /\ eng = NewEngine(EmitParams)
  /\ last = [op |-> "new", from |-> "idle", staged |-> FALSE, emitted |-> <<>>]

NextEmit ==
  \/ Subscribe
  \/ Unsubscribe
  \/ Start
  \/ StartInstant
  \/ Pause
  \/ Resume
  \/ Reset
  \/ SetSpeed
  \/ UpdateParamsEmit
  \/ EmitFrame

SpecEmit == InitEmit /\ [][NextEmit]_vars

----------------------------------------------------------------------------
(* C18 *)

ControlOps ==
  {"start", "startInstant", "pause", "resume", "reset", "setSpeed", "updateParams"}

\* one emission called exactly the listeners ls, each with snapshot s
Delivers(entry, ls, s) ==
  /\ DOMAIN entry.calls = ls
  /\ \A l \in ls : entry.calls[l] = s

\* the latest operation made one forced emission, of the state it left
OneForced ==
  /\ Len(last.emitted) = 1
  /\ last.emitted[1].via = "forced"
  /\ Delivers(last.emitted[1], eng.listeners, snapshot(eng))

\* the latest call returned at its status guard
Guarded ==
  \/ last.op = "pause" /\ last.from # "running"
  \/ last.op = "resume" /\ last.from # "paused"

\* C18 as stated: every call of start, startInstant, pause, resume, reset,
\* setSpeed or updateParams delivers, before it returns, one snapshot of the
\* post-call state to every current subscriber.
C18_Original == last.op \in ControlOps => OneForced

\* C18 amended: every call of start, startInstant, reset, setSpeed or
\* updateParams, every pause() called while running and every resume() called
\* while paused delivers before it returns, whatever the time since the last
\* throttled emission, exactly one snapshot of the post-call state to every
\* current subscriber; pause() while not running and resume() while not
\* paused call no listener.
C18_ControlEmits ==
  /\ (last.op \in ControlOps /\ ~Guarded) => OneForced
  /\ Guarded => last.emitted = <<>>

\* pause() on a running engine 30 ms after a throttled emission: both
\* listeners were called once with the paused state
C18_Witness ==
  /\ last.op = "pause"
  /\ last.from = "running"
  /\ eng.lastEmitAge = 30
  /\ eng.listeners = {"a", "b"}
  /\ Len(last.emitted) = 1
  /\ last.emitted[1].calls["a"].status = "paused"
  /\ last.emitted[1].calls["b"] = snapshot(eng)

----------------------------------------------------------------------------
(* C19 *)

\* the throttled (non-forced) emissions among the listener calls of a step
Throttled(log) == {i \in 1..Len(log) : log[i].via = "throttled"}

\* C19: a frame callback makes at most one non-forced emission, however many
\* days or cycles it processed, and makes it only when at least
\* EMIT_INTERVAL_MS have passed since the previous non-forced emission; no
\* other operation makes a non-forced emission.
C19_Throttle ==
  /\ Cardinality(Throttled(last.emitted)) <= 1
  /\ \A i \in Throttled(last.emitted) :
       /\ last.op = "rafCallback"
       /\ i = Len(last.emitted)
       /\ last.emitted[i].age >= EMIT_INTERVAL_MS
       /\ eng.lastEmitAge = 0
  /\ (last.op = "rafCallback" /\ last.from = "running" /\ Throttled(last.emitted) = {})
       => eng.lastEmitAge \in 1..(EMIT_INTERVAL_MS - 1)

\* one callback, 2000 ms after the 16 ms first frame, ran both one-day cycles
\* at 1x and emitted once
C19_Witness ==
  /\ last.op = "rafCallback"
  /\ eng.status = "running"
  /\ eng.mode = "day"
  /\ eng.speedMultiplier = 2
  /\ eng.resumes = 0
  /\ eng.accumulatedMs = 16
  /\ Len(eng.cycleRecords) = 2
  /\ eng.listeners = {"a"}
  /\ Len(last.emitted) = 1
  /\ last.emitted[1].via = "throttled"
  /\ last.emitted[1].age = EMIT_INTERVAL_MS
  /\ last.emitted[1].calls["a"].currentCycleIndex = 2

\* a callback 30 ms after a throttled emission: it called no listener
C19_WitnessQuiet ==
  /\ last.op = "rafCallback"
  /\ last.from = "running"
  /\ eng.lastEmitAge = 30
  /\ last.emitted = <<>>
  /\ eng.listeners # {}

----------------------------------------------------------------------------
(* C20 *)

\* the emissions among the listener calls of a step
Emissions(log) == {i \in 1..Len(log) : log[i].via # "subscribe"}

\* C20 as stated: subscribe(cb) calls cb once, at once, with the current
\* snapshot; while an unsubscribe function returned for cb has not been
\* called, every emission calls cb; once every one of them has been called
\* no emission calls cb.
C20_Original ==
  /\ last.op = "subscribe" =>
       /\ Len(last.emitted) = 1
       /\ last.emitted[1].via = "subscribe"
       /\ \E cb \in eng.listeners : Delivers(last.emitted[1], {cb}, snapshot(eng))
  /\ \A cb \in Listeners, i \in Emissions(last.emitted) :
       /\ eng.handles[cb] > 0 => cb \in DOMAIN last.emitted[i].calls
       /\ eng.handles[cb] = 0 => cb \notin DOMAIN last.emitted[i].calls

----------------------------------------------------------------------------
(* C21 *)

\* the fields of a snapshot that hold an object or an array
MutableFields ==
  { "params", "pendingParams", "currentCycleWeatherTimeline",
    "yieldHistoryOverTime", "recentYields", "yieldSeries", "yieldBandSeries",
    "cycleRecords", "weatherCounts", "dailyWeatherCounts",
    "dailyTyphoonSeverityCounts", "histogramBins", "summary" }

\* snapshot(): the fields it fills with the engine's own object instead of a
\* copy, and the engine field that object is (summary: this.summaryCache)
Aliased == [summary |-> "summaryCache"]

\* a consumer takes getSnapshot() and assigns v to the property mean of the
\* object in field f (for an array or a plain tally: to one of its slots): a
\* copy absorbs the write, the engine's own object takes it
mutateSnapshot(e, f, v) ==
  IF f \in DOMAIN Aliased /\ e[Aliased[f]] # NoSummary
  THEN [e EXCEPT ![Aliased[f]] = << [@[1] EXCEPT !.mean = v] >>]
  ELSE e

\* values a consumer writes
WrittenValues == {0}

MutateSnapshot ==
  \E f \in MutableFields, v \in WrittenValues :
    \E r \in {mutateSnapshot(eng, f, v)} :
      /\ eng' = Quiet(r)
      /\ last' = Step("mutateSnapshot", eng, r)

NextView ==
  \/ RunFrame
  \/ MutateSnapshot

\* a run under observation: frames, and a consumer writing to the snapshots
\* it reads
SpecView == InitRun /\ [][NextView]_vars

\* C21 as stated: a consumer that mutates any field of a snapshot it was given
\* changes neither the engine state nor any snapshot produced later.
C21_Original ==
  [][last'.op = "mutateSnapshot" =>
       /\ eng' = eng
       /\ snapshot(eng') = snapshot(eng)]_vars

----------------------------------------------------------------------------
(* C22 *)

\* C22: in every reachable state the histogram bin counts sum to the number
\* of cycles completed in the current run, which is welfordCount and the
\* length of cycleRecords.
C22_BinsCountCycles ==
  /\ BinTotal(eng) = eng.welfordCount
  /\ eng.welfordCount = Len(eng.cycleRecords)
  /\ \A i \in 1..Len(eng.histogramBins) : eng.histogramBins[i] >= 0

\* two cycles completed, both yields (1.7 t) counted in the bin from 1.5
C22_Witness ==
  /\ eng.welfordCount = 2
  /\ Len(eng.cycleRecords) = 2
  /\ eng.cycleRecords[1].yieldTons = 17
  /\ eng.histogramBins[4] = 2
  /\ BinTotal(eng) = 2

----------------------------------------------------------------------------
(* C23 *)

\* the accumulator alone: a rainfed, neutral run whose cycles come out Dry or
\* Normal with noise 0, 0.5 or 1.0 t, i.e. with yields 2.0 to 4.0 t
StatParams ==
  [DefaultParams EXCEPT !.irrigationType = "Rainfed", !.cyclesTarget = MaxYields,
                        !.daysPerCycle = 1]

StatWeather == {"Dry", "Normal"}

StatNoise == {0, 5, 10}

InitStats ==
  /\ eng = [NewEngine(StatParams) EXCEPT !.status = "running", !.mode = "cycle"]
  /\ last = [op |-> "new", from |-> "idle", staged |-> FALSE, emitted |-> <<>>]

\* one cycle completes
Accumulate ==
  /\ eng.welfordCount < MaxYields
  /\ \E w \in StatWeather, nz \in StatNoise :
       \E r \in {finalizeCycle(eng, getSeason(eng.params.plantingMonth), w, nz)} :
         /\ eng' = Quiet(r)
         /\ last' = Step("finalizeCycle", eng, r)

NextStats == Accumulate

SpecStats == InitStats /\ [][NextStats]_vars

\* sum of (n * y - total)^2 over the yields ys: n^2 times the sum of squared
\* deviations from the mean total / n, computed in a second pass
RECURSIVE Deviations(_, _, _)
Deviations(ys, n, total) ==
  IF ys = <<>> THEN 0
  ELSE (n * Head(ys) - total) * (n * Head(ys) - total) + Deviations(Tail(ys), n, total)

\* C23: after cycles with yields y1..yn the running mean is (y1+...+yn)/n and
\* the running sum of squared deviations, divided by n, is the population
\* variance of a two-pass computation; the reported deviation is 0 below two
\* cycles.  (welfordMean is in 1/WL, welfordM2 in 1/WL^2.)
C23_WelfordExact ==
  LET n == Len(eng.allYields)
      total == SumSeq(eng.allYields)
  IN /\ eng.welfordCount = n
     /\ n > 0 => eng.welfordMean * n = WL * total
     /\ n > 0 => eng.welfordM2 * n * n = WL * WL * Deviations(eng.allYields, n, total)
     /\ n < 2 => snapshot(eng).runningVar = 0
     /\ n >= 2 => snapshot(eng).runningVar = eng.welfordM2 \div n

\* the yields 2.0, 3.0, 2.5, 4.0: mean 2.875, sum of squared deviations 2.1875
C23_Witness ==
  /\ eng.allYields = <<20, 30, 25, 40>>
  /\ eng.welfordMean * 100 = 2875 * WL
  /\ eng.welfordM2 * 100 = 21875 * WL * WL
  /\ snapshot(eng).runningVar > 0

----------------------------------------------------------------------------
(* C24 *)

\* C24: in every reachable state the snapshot's summary is null exactly when
\* no cycle has completed in the current run.
C24_SummaryIffCycles ==
  /\ (snapshot(eng).summary = NoSummary) <=> (Completed(eng) = 0)
  /\ Completed(eng) = eng.welfordCount

\* the first cycle of a run has just completed and the run goes on: the
\* summary is there, with the single yield as its mean
C24_Witness ==
  /\ last.op = "rafCallback"
  /\ eng.status = "running"
  /\ Completed(eng) = 1
  /\ snapshot(eng).summary # NoSummary
  /\ snapshot(eng).summary[1].mean = eng.cycleRecords[1].yieldTons * WL

----------------------------------------------------------------------------
(* C25 *)

\* a long run: the cycles come out Dry and Normal in turn, without noise
InitSeries ==
  /\ eng = [NewEngine([StatParams EXCEPT !.cyclesTarget = MaxRun])
              EXCEPT !.status = "running", !.mode = "cycle"]
  /\ last = [op |-> "new", from |-> "idle", staged |-> FALSE, emitted |-> <<>>]

CompleteCycle ==
  /\ eng.welfordCount < MaxRun
  /\ \E w \in StatWeather :
       /\ (w = "Dry") <=> (eng.welfordCount % 2 = 0)
       /\ \E r \in {finalizeCycle(eng, getSeason(eng.params.plantingMonth), w, 0)} :
            /\ eng' = Quiet(r)
            /\ last' = Step("finalizeCycle", eng, r)

NextSeries == CompleteCycle

SpecSeries == InitSeries /\ [][NextSeries]_vars

\* series new is series old with x appended, the oldest entry dropped once
\* old holds cap entries
Pushed(old, new, x, cap) ==
  /\ Len(new) = Min(Len(old) + 1, cap)
  /\ new[Len(new)] = x
  /\ \A i \in 1..(Len(new) - 1) : new[i] = old[i + (IF Len(old) = cap THEN 1 ELSE 0)]

\* C25: after n completed cycles the mean-over-time and raw-yield series hold
\* min(n, 400) entries and the recent yields min(n, 60), each completion
\* pushes the newest entry and drops the oldest of a full series, and the
\* histogram and the running statistics account for all n cycles.
C25_SeriesCapped ==
  [][LET n == eng'.welfordCount
     IN /\ Len(eng'.yieldHistoryOverTime) = Min(n, MAX_SERIES)
        /\ Len(eng'.yieldSeries) = Min(n, MAX_SERIES)
        /\ Len(eng'.recentYields) = Min(n, RECENT_KEEP + 1)
        /\ Pushed(eng.yieldHistoryOverTime, eng'.yieldHistoryOverTime,
                  eng'.welfordMean, MAX_SERIES)
        /\ Pushed(eng.yieldSeries, eng'.yieldSeries,
                  [cycle |-> n, yield |-> eng'.currentYield], MAX_SERIES)
        /\ Pushed(eng.recentYields, eng'.recentYields, eng'.currentYield, RECENT_KEEP + 1)
        /\ BinTotal(eng') = n
        /\ Len(eng'.allYields) = n
        /\ Len(eng'.cycleRecords) = n
    ]_vars

\* 402 cycles completed: the series hold cycles 3 to 402
C25_Witness ==
  /\ eng.welfordCount = MAX_SERIES + 2
  /\ Len(eng.yieldSeries) = MAX_SERIES
  /\ eng.yieldSeries[1].cycle = 3
  /\ eng.yieldSeries[MAX_SERIES].cycle = MAX_SERIES + 2
  /\ Len(eng.yieldHistoryOverTime) = MAX_SERIES
  /\ Len(eng.recentYields) = RECENT_KEEP + 1
  /\ BinTotal(eng) = MAX_SERIES + 2

----------------------------------------------------------------------------
(* C26 *)

\* one parameter set for both runs
ModeParams ==
  { [DefaultParams EXCEPT !.cyclesTarget = c, !.daysPerCycle = d,
                          !.irrigationType = i]
    : c \in 1..2, d \in 1..2, i \in {"Irrigated", "Rainfed"} }

\* draws: 100 gives Normal weather and a Severe typhoon, 970 a Typhoon of
\* Moderate severity
ModeRand == {100, 970}

\* noise, in tenths
ModeNoise == {-20, 0, 3}

\* start() on one new engine and startInstant() on another with the same
\* params; the cycle-mode run has drawn its first cycle
InitModes ==
  \E p \in ModeParams : \E draws \in PrepareDraws(NewEngine(p), ModeRand) :
    /\ eng = [Quiet(start(NewEngine(p))) EXCEPT
                !.twin = << [run |-> Quiet(startInstant(NewEngine(p), draws)),
                             ahead |-> draws] >>]
    /\ last = [op |-> "new", from |-> "idle", staged |-> FALSE, emitted |-> <<>>]

\* the cycle-mode run completes its prepared cycle with noise nz and, unless
\* that finishes it, draws the next cycle from dr: the outcomes of tickCycle
\* over one cycle duration, paired with the draws prepareCycle turns into the
\* sequences found
TwinCycles(twin, nz) ==
  UNION { { [run |-> Quiet(t), ahead |-> IF t.status = "finished" THEN twin.ahead ELSE dr]
            : dr \in { x \in PrepareDraws(twin.run, ModeRand) :
                         t.status = "finished" \/ prepareCycle(t, x) = t } }
          : t \in tickCycle(twin.run, cycleDurationMs(twin.run), ModeRand, {nz}) }

\* one day of the day-mode run, on the draws the cycle-mode run used for the
\* same day; when the day completes the cycle, both runs complete it with the
\* same noise
ModeDay ==
  /\ eng.twin # <<>>
  /\ eng.status = "running"
  /\ \E nz \in ModeNoise :
       \E day \in { tickDay(eng, eng.twin[1].ahead[Min(eng.currentDay + 1, Len(eng.twin[1].ahead))][1],
                            eng.twin[1].ahead[Min(eng.currentDay + 1, Len(eng.twin[1].ahead))][2], nz) } :
         /\ IF day.currentCycleIndex = eng.currentCycleIndex
            THEN eng' = Quiet(day)
            ELSE \E tw \in TwinCycles(eng.twin[1], nz) : eng' = [Quiet(day) EXCEPT !.twin = <<tw>>]
         /\ last' = Step("tickDay", eng, day)

NextModes == ModeDay

SpecModes == InitModes /\ [][NextModes]_vars

\* what a finished run leaves: records, running statistics, histogram, tallies
Outcome(e) ==
  [ cycleRecords |-> e.cycleRecords,
    welfordCount |-> e.welfordCount,
    welfordMean |-> e.welfordMean, welfordM2 |-> e.welfordM2,
    deterministicMean |-> e.deterministicMean, deterministicM2 |-> e.deterministicM2,
    noiseMean |-> e.noiseMean, noiseM2 |-> e.noiseM2,
    minYield |-> e.minYield, maxYield |-> e.maxYield,
    lowYieldCount |-> e.lowYieldCount,
    histogramBins |-> e.histogramBins,
    weatherCounts |-> e.weatherCounts,
    dailyWeatherCounts |-> e.dailyWeatherCounts,
    dailyTyphoonSeverityCounts |-> e.dailyTyphoonSeverityCounts,
    summary |-> e.summaryCache ]

\* C26: with identical params, no parameter change and the same draws, the
\* run started with start() and the run started with startInstant() complete
\* the same cycles: whenever both stand at the same number of completed
\* cycles their records, statistics and histogram agree, and once the
\* day-mode run is finished the cycle-mode run is finished too, with the same
\* daily weather and typhoon-severity tallies.
C26_ModesAgree ==
  eng.twin # <<>> =>
    /\ Completed(eng) = Completed(eng.twin[1].run)
    /\ Outcome(eng).cycleRecords = Outcome(eng.twin[1].run).cycleRecords
    /\ Outcome(eng).histogramBins = Outcome(eng.twin[1].run).histogramBins
    /\ Outcome(eng).welfordMean = Outcome(eng.twin[1].run).welfordMean
    /\ eng.status = "finished" =>
         /\ eng.twin[1].run.status = "finished"
         /\ Outcome(eng) = Outcome(eng.twin[1].run)

\* both runs finished after two cycles of two days, with a Severe and a
\* Moderate typhoon day and two Normal days in the tallies
C26_Witness ==
  /\ eng.twin # <<>>
  /\ eng.status = "finished"
  /\ eng.mode = "day"
  /\ eng.twin[1].run.mode = "cycle"
  /\ eng.twin[1].run.status = "finished"
  /\ Len(eng.cycleRecords) = 2
  /\ eng.twin[1].run.dailyWeatherCounts.Normal = 2
  /\ eng.twin[1].run.dailyTyphoonSeverityCounts.Severe = 1
  /\ eng.twin[1].run.dailyTyphoonSeverityCounts.Moderate = 1
  /\ eng.cycleRecords[1].yieldTons # eng.cycleRecords[2].yieldTons

----------------------------------------------------------------------------
(* C27 *)

\* the running statistics
Stats(e) ==
  [ welfordCount |-> e.welfordCount,
    welfordMean |-> e.welfordMean, welfordM2 |-> e.welfordM2,
    deterministicMean |-> e.deterministicMean, deterministicM2 |-> e.deterministicM2,
    noiseMean |-> e.noiseMean, noiseM2 |-> e.noiseM2,
    minYield |-> e.minYield, maxYield |-> e.maxYield,
    lowYieldCount |-> e.lowYieldCount ]

\* their values in a new engine
InitialStats == Stats(NewEngine(DefaultParams))

----------------------------------------------------------------------------
(* C28 *)

\* multipliers a caller can pass to setSpeed, in halves: 0x, 20x and 20.5x
WideSpeedInputs == {0, 40, 41}

SetSpeedWide ==
  /\ \E m \in WideSpeedInputs :
       \E r \in {setSpeed(eng, m)} :
         /\ eng' = Quiet(r)
         /\ last' = Step("setSpeed", eng, r)

NextSpeed ==
  \/ SetSpeedWide
  \/ Start
  \/ Pause
  \/ Resume
  \/ Reset
  \/ RafCallback

SpecSpeed == Init /\ [][NextSpeed]_vars

\* C28 as stated: after any sequence of setSpeed calls the speed multiplier
\* lies between 0.5 and 20.
C28_Original == eng.speedMultiplier \in 1..40

----------------------------------------------------------------------------
(* C29 *)

\* every irrigation type and ENSO state, one day per cycle
YieldParams ==
  { [DefaultParams EXCEPT !.irrigationType = i, !.ensoState = n, !.daysPerCycle = 1] :
      i \in {"Irrigated", "Rainfed"}, n \in {"ElNino", "Neutral", "LaNina"} }

\* values of gaussianNoise(), in tenths: -4.0 t takes every yield below 0
YieldNoise == {-40, -5, 0, 5}

\* severity of the cycle's one day: a Typhoon day is Moderate or Severe
DaySeverities(w) == IF w = "Typhoon" THEN Severities ELSE {NULL}

InitYield ==
  /\ eng \in {[NewEngine(p) EXCEPT !.status = "running", !.mode = "cycle"] : p \in YieldParams}
  /\ last = [op |-> "new", from |-> "idle", staged |-> FALSE, emitted |-> <<>>]

\* one cycle of one day of weather w completes
Harvest ==
  /\ eng.welfordCount < MaxCycles
  /\ \E w \in WeatherSet, nz \in YieldNoise :
       \E sev \in DaySeverities(w) :
         \E e2 \in {[eng EXCEPT !.cycleWeatherAccum = [ZeroWeather EXCEPT ![w] = 1],
                               !.cycleTyphoonSeverityCounts =
                                  [s \in Severities |-> IF s = sev THEN 1 ELSE 0]]} :
           \E r \in {finalizeCycle(e2, getSeason(e2.params.plantingMonth),
                                   getDominantWeather(e2), nz)} :
             /\ eng' = Quiet(r)
             /\ last' = Step("finalizeCycle", eng, r)

NextYield == Harvest

SpecYield == InitYield /\ [][NextYield]_vars

\* the yield the claim gives for a base, two deltas and a noise
ClaimedYield(base, irrigationDelta, ensoDelta, noise) ==
  [ deterministic |-> base + irrigationDelta + ensoDelta,
    final |-> IF base + irrigationDelta + ensoDelta + noise < 0 THEN 0
              ELSE base + irrigationDelta + ensoDelta + noise ]

\* base yield of a weather and a severity (null for none)
ClaimedBase(w, sev) ==
  IF w = "Typhoon" /\ sev = "Moderate" THEN 14
  ELSE IF w = "Typhoon" /\ sev = "Severe" THEN 8
  ELSE IF w = "Typhoon" THEN 12
  ELSE IF w = "Dry" THEN 20
  ELSE IF w = "Normal" THEN 30
  ELSE 33

ClaimedDeltas(p) ==
  << IF p.irrigationType = "Irrigated" THEN 3 ELSE 0,
     IF p.ensoState = "ElNino" THEN -4 ELSE IF p.ensoState = "LaNina" THEN 3 ELSE 0 >>

\* C29: for every weather, severity, irrigation type, ENSO state and noise
\* computeYield returns deterministic = base + irrigation delta + ENSO delta and
\* final = max(0, deterministic + noise), never negative; and the yield a
\* completed cycle feeds to the accumulator, the record and the series is that
\* final value, with the deterministic and noise channels fed the two parts.
C29_YieldFloored ==
  [][/\ \A w \in WeatherSet, sev \in Severities \cup {NULL}, nz \in YieldNoise :
          LET d == ClaimedDeltas(eng.params)
              y(got) ==
                /\ got.deterministic = ClaimedYield(ClaimedBase(w, sev), d[1], d[2], nz).deterministic
                /\ got.final = ClaimedYield(ClaimedBase(w, sev), d[1], d[2], nz).final
                /\ got.final >= 0
                /\ got.noise = nz
          IN y(computeYield(w, eng.params, sev, nz))
     /\ last'.op = "finalizeCycle" =>
          LET rec == eng'.cycleRecords[Len(eng'.cycleRecords)]
              d == ClaimedDeltas(eng.params)
              n == eng.welfordCount
              fed(c) ==
                /\ eng'.currentYield = c.final
                /\ rec.yieldTons = c.final
                /\ eng'.allYields = Append(eng.allYields, c.final)
                /\ c.final >= 0
                /\ eng'.minYield >= 0
                /\ eng'.deterministicMean * (n + 1) - eng.deterministicMean * n
                     = WL * c.deterministic
                /\ eng'.welfordMean * (n + 1) - eng.welfordMean * n = WL * c.final
          IN \E nz \in YieldNoise :
               /\ eng'.noiseMean * (n + 1) - eng.noiseMean * n = WL * nz
               /\ fed(ClaimedYield(ClaimedBase(rec.weather, rec.dominantTyphoonSeverity),
                                   d[1], d[2], nz))
    ]_vars

\* a Severe typhoon cycle of a rainfed El Nino run with noise -4.0 t: the
\* deterministic part is 0.4 t and the yield is floored at 0
C29_Witness ==
  /\ last.op = "finalizeCycle"
  /\ eng.welfordCount = 1
  /\ eng.params.irrigationType = "Rainfed"
  /\ eng.params.ensoState = "ElNino"
  /\ eng.cycleRecords[1].weather = "Typhoon"
  /\ eng.cycleRecords[1].dominantTyphoonSeverity = "Severe"
  /\ eng.deterministicMean = WL * 4
  /\ eng.noiseMean = WL * (-40)
  /\ eng.currentYield = 0
  /\ eng.allYields = <<0>>

----------------------------------------------------------------------------
(* C30 *)

Months == 1..12

\* a day-mode run of one-day cycles planted in each month of the year
SeasonParams == { [DefaultParams EXCEPT !.plantingMonth = m, !.daysPerCycle = 1] : m \in Months }

\* uniform draws of getWeather, in 1/1000
SeasonRand == {50, 300, 700, 990}

InitSeason ==
  /\ eng \in {Quiet(start(NewEngine(p))) : p \in SeasonParams}
  /\ last = [op |-> "new", from |-> "idle", staged |-> FALSE, emitted |-> <<>>]

\* one simulated day: the weather is drawn with the month's blend and the cycle
\* is recorded under the month's season label
SeasonDay ==
  /\ eng.status = "running"
  /\ eng.currentCycleIndex < eng.params.cyclesTarget
  /\ \E r1 \in SeasonRand :
       \E r \in {tickDay(eng, r1, 500, 0)} :
         /\ eng' = Quiet(r)
         /\ last' = Step("tickDay", eng, r)

NextSeason == SeasonDay

SpecSeason == InitSeason /\ [][NextSeason]_vars

\* the wet weight the claim gives for a month, in hundredths
ClaimedWetWeight(m) ==
  IF m \in 6..10 THEN 100
  ELSE IF m \in {5, 11} THEN 50
  ELSE IF m \in {4, 12} THEN 25
  ELSE 0

\* the label the claim gives for a month
ClaimedLabel(m) ==
  IF m \in 6..10 THEN "Wet Season"
  ELSE IF m \in {5, 11} THEN "Transition Season"
  ELSE "Dry Season"

\* C30: for every month 1..12 the two weights of getSeasonBlend add up to 1,
\* the wet weight is 1 in months 6-10, 0.5 in months 5 and 11, 0.25 in months
\* 4 and 12 and 0 in months 1-3, and the label is Wet Season in months 6-10,
\* Transition Season in months 5 and 11 and Dry Season otherwise; every cycle
\* is recorded under the label of its planting month.
C30_SeasonBlend ==
  /\ \A m \in Months :
       LET ok(b) == /\ b.dryWeight + b.wetWeight = 100
                    /\ b.wetWeight = ClaimedWetWeight(m)
                    /\ b.label = ClaimedLabel(m)
       IN ok(getSeasonBlend(m)) /\ getSeason(m) = ClaimedLabel(m)
  /\ \A i \in DOMAIN eng.cycleRecords :
       eng.cycleRecords[i].season = ClaimedLabel(eng.cycleRecords[i].plantingMonth)

\* a cycle planted in November has been recorded as Transition Season
C30_Witness ==
  /\ last.op = "tickDay"
  /\ eng.params.plantingMonth = 11
  /\ Len(eng.cycleRecords) = 1
  /\ eng.cycleRecords[1].season = "Transition Season"
  /\ getSeasonBlend(eng.cycleRecords[1].plantingMonth).wetWeight = 50

----------------------------------------------------------------------------
(* C31 *)

\* parameter sets whose daysPerCycle or cyclesTarget may be 0
ZeroParams ==
  { [DefaultParams EXCEPT !.daysPerCycle = d, !.cyclesTarget = c] :
      d \in {0, MaxDays}, c \in {0, MaxCycles} }

\* arguments of updateParams that take one of the two to 0
ZeroUpdateInputs == { [daysPerCycle |-> 0], [cyclesTarget |-> 0] }

InitZero ==
  /\ eng \in {NewEngine(p) : p \in ZeroParams}
  /\ last = [op |-> "new", from |-> "idle", staged |-> FALSE, emitted |-> <<>>]

UpdateParamsZero ==
  /\ \E partial \in ZeroUpdateInputs :
       \E r \in {updateParams(eng, partial)} :
         /\ eng' = Quiet(r)
         /\ last' = Step("updateParams", eng, r)

NextZero ==
  \/ Start
  \/ StartInstant
  \/ Pause
  \/ Resume
  \/ Reset
  \/ UpdateParamsZero
  \/ RafCallback

SpecZero == InitZero /\ [][NextZero]_vars

\* C31: in every status the snapshot's dayProgress is 0 when daysPerCycle is 0
\* and its runProgress is 0 when cyclesTarget is 0; neither fraction ever has
\* the divisor 0.
C31_ProgressDefined ==
  LET defined(s) ==
        /\ eng.params.daysPerCycle = 0 => s.dayProgress[1] = 0
        /\ eng.params.cyclesTarget = 0 => s.runProgress[1] = 0
        /\ s.dayProgress[2] # 0
        /\ s.runProgress[2] # 0
  IN defined(snapshot(eng))

\* a run with daysPerCycle 0 that has counted cycles and then had its target
\* set to 0: both divisions would be by 0, the second of a non-zero count
C31_Witness ==
  /\ eng.params.daysPerCycle = 0
  /\ eng.params.cyclesTarget = 0
  /\ eng.currentCycleIndex > 0
  /\ snapshot(eng).runProgress = <<0, 1>>
  /\ snapshot(eng).dayProgress = <<0, 1>>

----------------------------------------------------------------------------
(* C32 *)

\* C32: within a run cycleRecords only grows at its end: a frame callback
\* appends one record per cycle it finalizes and leaves every earlier record
\* in place with all its fields; pause, resume, setSpeed and updateParams
\* leave the list as it is; only reset() and a new start empty it.
C32_RecordsAppendOnly ==
  [][IF last'.op \in {"reset", "start", "startInstant"}
     THEN eng'.cycleRecords = <<>>
     ELSE /\ Len(eng'.cycleRecords) >= Len(eng.cycleRecords)
          /\ SubSeq(eng'.cycleRecords, 1, Len(eng.cycleRecords)) = eng.cycleRecords
          /\ Len(eng'.cycleRecords) - Len(eng.cycleRecords)
               = eng'.welfordCount - eng.welfordCount
          /\ Len(eng'.cycleRecords) - Len(eng.cycleRecords)
               = eng'.currentCycleIndex - eng.currentCycleIndex
          /\ last'.op # "rafCallback" => eng'.cycleRecords = eng.cycleRecords
    ]_vars

\* the run has its two records, made under different settings, and has since
\* finished in a later callback
C32_Witness ==
  /\ last.op = "rafCallback"
  /\ last.from = "running"
  /\ eng.status = "finished"
  /\ eng.mode = "day"
  /\ Len(eng.cycleRecords) = 2
  /\ eng.cycleRecords[1].ensoState = "Neutral"
  /\ eng.cycleRecords[2].ensoState = "ElNino"

----------------------------------------------------------------------------
(* C33 *)

\* the step is an updateParams call whose argument gives field f a value
Supersedes(f) ==
  /\ last'.op = "updateParams"
  /\ \E partial \in UpdateInputs :
       f \in DOMAIN partial /\ eng' = Quiet(updateParams(eng, partial))

\* C33 as stated: in every step that empties a non-empty pending overlay,
\* every field the overlay held is written to params in that step (or is given
\* a newer value by the call itself); no staged change is discarded.
C33_Original ==
  [][(eng.pendingParams # EmptyPartial /\ eng'.pendingParams = EmptyPartial)
       => \A f \in DOMAIN eng.pendingParams :
            eng'.params[f] = eng.pendingParams[f] \/ Supersedes(f)
    ]_vars

----------------------------------------------------------------------------
(* C34 *)

\* C34 as stated: at most one animation-frame callback is queued at any time,
\* and none while status is idle, paused or finished.
C34_Original ==
  /\ Outstanding(eng) <= 1
  /\ eng.status \in {"idle", "paused", "finished"} => Outstanding(eng) = 0

----------------------------------------------------------------------------
(* C35 *)

\* C35: in every state currentCycleIndex, the number of records, the Welford
\* sample count and the sum of the dominant-weather tallies are equal, the
\* i-th record has cycleIndex i, and the low-yield counter is the number of
\* records with a yield below 2.0 t.
C35_CountersAgree ==
  /\ eng.currentCycleIndex = Len(eng.cycleRecords)
  /\ eng.welfordCount = Len(eng.cycleRecords)
  /\ eng.weatherCounts.Dry + eng.weatherCounts.Normal + eng.weatherCounts.Wet
       + eng.weatherCounts.Typhoon = Len(eng.cycleRecords)
  /\ \A i \in 1..Len(eng.cycleRecords) : eng.cycleRecords[i].cycleIndex = i
  /\ eng.lowYieldCount
       = Cardinality({i \in 1..Len(eng.cycleRecords) : eng.cycleRecords[i].yieldTons < 20})

\* a run has completed two cycles, a Typhoon cycle with a low yield and then
\* a cycle above 2.0 t
C35_Witness ==
  /\ last.op = "rafCallback"
  /\ Len(eng.cycleRecords) = 2
  /\ eng.lowYieldCount = 1
  /\ eng.weatherCounts.Typhoon = 1
  /\ eng.cycleRecords[1].yieldTons < 20
  /\ eng.cycleRecords[2].yieldTons >= 20
  /\ eng.cycleRecords[2].cycleIndex = 2

----------------------------------------------------------------------------
(* C36 *)

\* the engine without the host's queue of callbacks
Engine(e) == [e EXCEPT !.rafLive = FALSE, !.rafLeaked = 0]

\* C36: a frame callback that fires while status is idle, paused or finished
\* changes no field of the engine, calls no listener and schedules no new
\* callback.
C36_CallbackIgnored ==
  [][(last'.op = "rafCallback" /\ eng.status \in {"idle", "paused", "finished"}) =>
       /\ Engine(eng') = Engine(eng)
       /\ Outstanding(eng') = Outstanding(eng) - 1
       /\ last'.emitted = <<>>
    ]_vars

\* a callback has fired in a run that was paused in the middle of a cycle
C36_Witness ==
  /\ last.op = "rafCallback"
  /\ last.from = "paused"
  /\ eng.status = "paused"
  /\ eng.currentDay > 0
  /\ Outstanding(eng) = 0

----------------------------------------------------------------------------
(* C37 *)

\* one cycle of MaxTallyDays days
TallyParams == [DefaultParams EXCEPT !.cyclesTarget = 1, !.daysPerCycle = MaxTallyDays]

\* uniform draws, in 1/1000: as getWeather draws they give Dry, Normal, Wet and
\* Typhoon in month 6, as getTyphoonSeverity draws Severe (50, 300) and
\* Moderate (700, 990)
TallyRand == {50, 300, 700, 990}

\* a day-mode run, or a cycle-mode run with its one cycle drawn
InitTally ==
  /\ eng \in {Quiet(start(NewEngine(TallyParams)))}
            \cup {Quiet(startInstant(NewEngine(TallyParams), draws)) :
                    draws \in PrepareDraws(NewEngine(TallyParams), TallyRand)}
  /\ last = [op |-> "new", from |-> "idle", staged |-> FALSE, emitted |-> <<>>]

\* day mode: one simulated day
TallyDay ==
  /\ eng.mode = "day"
  /\ eng.status = "running"
  /\ eng.currentCycleIndex < eng.params.cyclesTarget
  /\ \E r1 \in TallyRand, r2 \in TallyRand :
       \E r \in {tickDay(eng, r1, r2, 0)} :
         /\ eng' = Quiet(r)
         /\ last' = Step("tickDay", eng, r)

\* cycle mode: the cycle's display time has passed
TallyCycle ==
  /\ eng.mode = "cycle"
  /\ eng.status = "running"
  /\ \E r \in tickCycle(eng, cycleDurationMs(eng), TallyRand, {0}) :
       /\ eng' = Quiet(r)
       /\ last' = Step("tickCycle", eng, r)

NextTally ==
  \/ TallyDay
  \/ TallyCycle

SpecTally == InitTally /\ [][NextTally]_vars

\* the step finalizes a cycle
Finalizes == Len(eng'.cycleRecords) = Len(eng.cycleRecords) + 1

\* the day tally the finalization of this step sees: in day mode the tally so
\* far and the day just sampled, in cycle mode the prepared cycle's tally
FinalTally ==
  [w \in WeatherSet |->
     IF eng.mode = "day"
     THEN eng.cycleWeatherAccum[w] + eng'.dailyWeatherCounts[w] - eng.dailyWeatherCounts[w]
     ELSE eng.cycleWeatherAccum[w]]

\* the severity counts the finalization of this step sees
FinalSeverities ==
  [s \in Severities |->
     IF eng.mode = "day"
     THEN eng.cycleTyphoonSeverityCounts[s] + eng'.dailyTyphoonSeverityCounts[s]
            - eng.dailyTyphoonSeverityCounts[s]
     ELSE eng.cycleTyphoonSeverityCounts[s]]

\* position in the order Dry, Normal, Wet, Typhoon
OrderOf(w) == CHOOSE i \in 1..4 : <<"Dry", "Normal", "Wet", "Typhoon">>[i] = w

\* C37: the dominant weather of a finalized cycle has the largest day count of
\* the cycle's tally, and among the types with that count it is the earliest
\* of Dry, Normal, Wet, Typhoon; for a Typhoon cycle the dominant severity is
\* Severe when Severe days >= Moderate days and Moderate otherwise; for any
\* other cycle it is null.
C37_DominantWeather ==
  [][Finalizes =>
       LET rec == eng'.cycleRecords[Len(eng'.cycleRecords)]
           mode(tally, w) ==
             /\ \A v \in WeatherSet : tally[w] >= tally[v]
             /\ \A v \in WeatherSet : tally[v] = tally[w] => OrderOf(w) <= OrderOf(v)
           severity(sc) ==
             IF rec.weather # "Typhoon" THEN NULL
             ELSE IF sc.Severe >= sc.Moderate THEN "Severe" ELSE "Moderate"
       IN /\ mode(FinalTally, rec.weather)
          /\ rec.dominantTyphoonSeverity = severity(FinalSeverities)
    ]_vars

\* a cycle of one Normal, one Wet and one Typhoon day was recorded as Normal
C37_Witness ==
  /\ Len(eng.cycleRecords) = 1
  /\ eng.mode = "day"
  /\ eng.dailyWeatherCounts = [Dry |-> 0, Normal |-> 1, Wet |-> 1, Typhoon |-> 1]
  /\ eng.cycleRecords[1].weather = "Normal"
  /\ eng.cycleRecords[1].dominantTyphoonSeverity = NULL

----------------------------------------------------------------------------
(* C38 *)

\* the fraction <<n, d>> lies in [0, 1]
InUnit(fraction) == fraction[2] > 0 /\ 0 <= fraction[1] /\ fraction[1] <= fraction[2]

\* C38 as stated: with daysPerCycle >= 1 and cyclesTarget >= 1 the snapshot's
\* dayProgress and runProgress lie in [0, 1] in every state: currentDay never
\* exceeds daysPerCycle and currentCycleIndex never exceeds cyclesTarget.
C38_Original ==
  (eng.params.daysPerCycle >= 1 /\ eng.params.cyclesTarget >= 1) =>
    /\ InUnit(snapshot(eng).dayProgress)
    /\ InUnit(snapshot(eng).runProgress)
    /\ eng.currentDay <= eng.params.daysPerCycle
    /\ eng.currentCycleIndex <= eng.params.cyclesTarget

----------------------------------------------------------------------------
(* C39 *)

\* typhoon days over the records recs
TyphoonDaysOf(recs) == SumSeq([i \in 1..Len(recs) |-> recs[i].typhoonDays])

\* the typhoon tallies of run e agree: the Typhoon days of the cycle under way
\* are its Moderate plus Severe days; the typhoon days of the records (with, in
\* day mode, those of the cycle under way) are the Typhoon days counted by
\* weather over the run, so each record, as it is added, carries the Typhoon
\* days of its own cycle; and a Typhoon record has a severity
TyphoonTalliesAgree(e) ==
  /\ e.cycleWeatherAccum.Typhoon
       = e.cycleTyphoonSeverityCounts.Moderate + e.cycleTyphoonSeverityCounts.Severe
  /\ TyphoonDaysOf(e.cycleRecords)
       + (IF e.mode = "day" THEN e.cycleWeatherAccum.Typhoon ELSE 0)
       = e.dailyWeatherCounts.Typhoon
  /\ e.dailyWeatherCounts.Typhoon
       = e.dailyTyphoonSeverityCounts.Moderate + e.dailyTyphoonSeverityCounts.Severe
  /\ \A i \in 1..Len(e.cycleRecords) :
       e.cycleRecords[i].weather = "Typhoon" =>
         /\ e.cycleRecords[i].dominantTyphoonSeverity \in Severities
         /\ e.cycleRecords[i].typhoonDays > 0

\* C39: in day mode and in cycle mode the Typhoon days tallied in a cycle
\* equal its Moderate plus Severe counts, every record's typhoonDays are the
\* Typhoon days of its cycle, and every Typhoon record has a non-null dominant
\* severity, so the generic Typhoon base yield is never applied.
C39_TyphoonTallies ==
  eng.twin # <<>> =>
    /\ TyphoonTalliesAgree(eng)
    /\ TyphoonTalliesAgree(eng.twin[1].run)

\* both runs have recorded a first cycle of two Typhoon days, one Moderate and
\* one Severe, as a Severe Typhoon cycle, and the day-mode run has had a
\* Typhoon day in its second cycle
C39_Witness ==
  /\ eng.twin # <<>>
  /\ eng.status = "running"
  /\ Len(eng.cycleRecords) = 1
  /\ eng.cycleRecords[1].weather = "Typhoon"
  /\ eng.cycleRecords[1].typhoonDays = 2
  /\ eng.cycleRecords[1].severeTyphoonDays = 1
  /\ eng.cycleRecords[1].dominantTyphoonSeverity = "Severe"
  /\ eng.cycleWeatherAccum.Typhoon = 1
  /\ Len(eng.twin[1].run.cycleRecords) = 1
  /\ eng.twin[1].run.cycleRecords[1].typhoonDays = 2

====
